---- MODULE Spec2Model ----
(***************************************************************************)
(* Model of crates/language_models/src/provider/cloud.rs: the cloud        *)
(* language model's completion path (perform_llm_completion, the           *)
(* ApiError -> LanguageModelCompletionError conversion, response_lines     *)
(* with its synthetic trailers, map_cloud_completion_events) and the       *)
(* request limiter it runs under.                                          *)
(***************************************************************************)
EXTENDS Integers, Sequences, FiniteSets, TLC

VARIABLES
    api_error,          \* the ApiError handed to the conversion
    completion_error,   \* the LanguageModelCompletionError it returned, once converted
    model,              \* self.model: its provider, and whether open_ai::Model::from_id knows its id
    app_version,        \* AppVersion::global(cx).ok()
    llm_api_token,      \* the shared LlmApiToken: 0 when no token is held yet
    external_refreshes, \* refreshes done by the RefreshLlmTokenListener subscription
    pc,                 \* where the call is: the await it is suspended at
    token,              \* perform_llm_completion's local `token`
    refreshed_token,    \* perform_llm_completion's local `refreshed_token`
    response,           \* the response whose body is being read
    requests,           \* the requests handed to http_client.send, in order
    responses,          \* the responses received, in order
    refreshed,          \* what llm_api_token.refresh returned to this call, in order
    refresh_calls,      \* calls of llm_api_token.refresh made by this call
    perform_result,     \* what perform_llm_completion returned
    result,             \* what the future of stream_completion resolved to
    completion,         \* the PerformLlmCompletionResponse the event stream is built from
    chain,              \* the stream of the chain that is polled next (an index)
    lines_done,         \* response_lines has returned an error or the end: its state is gone
    wire,               \* the lines read from the response body so far
    raw,                \* the items the chained stream has yielded, with where each came from
    pending,            \* flat_map's current inner stream: mapped items not yet yielded
    out,                \* the items the event stream has yielded to the caller
    mapper,             \* the event mapper's state: the payloads it has been fed
    permits,            \* per model object: free slots of its request_limiter
    queue,              \* per model object: operations waiting for a slot, first come first
    op,                 \* per caller: where its stream_completion call is
    limiter_of,         \* per caller: the model object it called, 0 before the call
    waited,             \* the callers that called when no slot of their limiter was free
    calls,              \* per concurrent call of one client: the locals of its perform_llm_completion
    other_stream        \* the event stream of another stream_completion call, while it is not polled

classifyVars == <<api_error, completion_error>>

callVars == <<model, app_version, llm_api_token, external_refreshes, pc, token,
              refreshed_token, response, requests, responses, refreshed, refresh_calls,
              perform_result, result>>

streamVars == <<completion, chain, lines_done, wire, raw, pending, out, mapper>>

limiterVars == <<permits, queue, op, limiter_of, waited>>

concurrentVars == <<calls, other_stream>>

vars == <<classifyVars, callVars, streamVars, limiterVars, concurrentVars>>

(***************************************************************************)
(* Strings the code inspects are sequences of one-character strings, so    *)
(* that starts_with, ends_with, strip_prefix and parse::<u16> are computed *)
(* on the characters.                                                      *)
(***************************************************************************)
UPSTREAM_HTTP_PREFIX == <<"u","p","s","t","r","e","a","m","_","h","t","t","p","_">>

ERROR_SUFFIX == <<"_","e","r","r","o","r">>

None == [some |-> FALSE]

Some(v) == [some |-> TRUE, v |-> v]

starts_with(s, p) == Len(s) >= Len(p) /\ SubSeq(s, 1, Len(p)) = p

ends_with(s, p) == Len(s) >= Len(p) /\ SubSeq(s, Len(s) - Len(p) + 1, Len(s)) = p

\* str::strip_prefix: the rest of s after p, or None
strip_prefix(s, p) == IF starts_with(s, p) THEN Some(SubSeq(s, Len(p) + 1, Len(s))) ELSE None

Digits == {"0","1","2","3","4","5","6","7","8","9"}

DigitValue(c) ==
    CASE c = "0" -> 0 [] c = "1" -> 1 [] c = "2" -> 2 [] c = "3" -> 3 [] c = "4" -> 4
      [] c = "5" -> 5 [] c = "6" -> 6 [] c = "7" -> 7 [] c = "8" -> 8 [] c = "9" -> 9

RECURSIVE DecimalValue(_)
DecimalValue(ds) ==
    IF ds = <<>> THEN 0
    ELSE 10 * DecimalValue(SubSeq(ds, 1, Len(ds) - 1)) + DigitValue(ds[Len(ds)])

U16_MAX == 65535

\* str::parse::<u16>: an optional leading "+", then one or more decimal digits,
\* value at most u16::MAX; anything else is an error (None)
parse_u16(s) ==
    LET ds == IF s # <<>> /\ s[1] = "+" THEN SubSeq(s, 2, Len(s)) ELSE s
    IN  IF ds # <<>> /\ (\A i \in 1..Len(ds) : ds[i] \in Digits) /\ DecimalValue(ds) <= U16_MAX
        THEN Some(DecimalValue(ds))
        ELSE None

\* http::StatusCode::from_u16: valid exactly for 100..=999
StatusCode_from_u16(n) == IF n >= 100 /\ n < 1000 THEN Some(n) ELSE None

(***************************************************************************)
(* Response bodies.  A body is text that is not JSON, a JSON value that is *)
(* not an object, or a JSON object: a function from its member names to    *)
(* JSON values (a string, an integer literal, a literal with a fraction,   *)
(* in tenths, or null).                                                    *)
(***************************************************************************)
JStr(s) == [t |-> "string", s |-> s]

JInt(n) == [t |-> "int", n |-> n]

JFloat(tenths) == [t |-> "float", tenths |-> tenths]

JNull == [t |-> "null"]

TextBody(text) == [json |-> "no", text |-> text]

ScalarBody(v) == [json |-> "scalar", value |-> v]

ObjectBody(obj) == [json |-> "object", obj |-> obj]

ParseErr == [ok |-> FALSE]

\* String members `code` and `message`: required, and must be JSON strings
de_string(obj, f) ==
    IF f \in DOMAIN obj /\ obj[f].t = "string" THEN [ok |-> TRUE, v |-> obj[f].s] ELSE ParseErr

\* The deserializer as it would be if it kept every u16 as the status
deserialize_optional_status_code_AnyU16(v) ==
    CASE v.t = "null" -> [ok |-> TRUE, v |-> None]
      [] v.t = "int" /\ v.n >= 0 /\ v.n <= U16_MAX -> [ok |-> TRUE, v |-> Some(v.n)]
      [] OTHER -> ParseErr

\* deserialize_optional_status_code: Option<u16>, then StatusCode::from_u16(..).ok()
deserialize_optional_status_code(v) ==
    CASE v.t = "null" -> [ok |-> TRUE, v |-> None]
      [] v.t = "int" /\ v.n >= 0 /\ v.n <= U16_MAX -> [ok |-> TRUE, v |-> StatusCode_from_u16(v.n)]
      [] OTHER -> ParseErr

\* #[serde(default)] upstream_status: a missing member is None
de_upstream_status(obj) ==
    IF "upstream_status" \in DOMAIN obj
    THEN deserialize_optional_status_code(obj["upstream_status"])
    ELSE [ok |-> TRUE, v |-> None]

\* #[serde(default)] retry_after: Option<f64>, seconds held in tenths
de_retry_after(obj) ==
    IF "retry_after" \notin DOMAIN obj THEN [ok |-> TRUE, v |-> None]
    ELSE LET v == obj["retry_after"]
         IN  CASE v.t = "null" -> [ok |-> TRUE, v |-> None]
               [] v.t = "int" -> [ok |-> TRUE, v |-> Some(10 * v.n)]
               [] v.t = "float" -> [ok |-> TRUE, v |-> Some(v.tenths)]
               [] OTHER -> ParseErr

\* serde_json::from_str::<CloudApiError>(&error.body)
CloudApiError(body) ==
    IF body.json # "object" THEN ParseErr
    ELSE LET code == de_string(body.obj, "code")
             message == de_string(body.obj, "message")
             upstream_status == de_upstream_status(body.obj)
             retry_after == de_retry_after(body.obj)
         IN  IF code.ok /\ message.ok /\ upstream_status.ok /\ retry_after.ok
             THEN [ok |-> TRUE, code |-> code.v, message |-> message.v,
                   upstream_status |-> upstream_status.v, retry_after |-> retry_after.v]
             ELSE ParseErr

PROVIDER_NAME == "Zed"

INTERNAL_SERVER_ERROR == 500

Panic == [kind |-> "panic"]

\* Duration::from_secs_f64 on seconds held in tenths: milliseconds, and a panic
\* for a negative value
Duration_from_secs_f64(tenths) == IF tenths < 0 THEN Panic ELSE [millis |-> 100 * tenths]

\* LanguageModelCompletionError::from_http_status(provider, status, message, retry_after)
from_http_status(provider_name, status_code, message, retry_after) ==
    IF status_code = INTERNAL_SERVER_ERROR
    THEN [kind |-> "ApiInternalServerError", provider |-> provider_name, message |-> message]
    ELSE [kind |-> "StatusKeyed", provider |-> provider_name, status |-> status_code,
          message |-> message, retry_after |-> retry_after]

\* The status of an upstream error: upstream_status, else the outer status for a
\* code ending in "_error", else the number after the prefix, else the outer status
UpstreamStatus(cloud_error, error) ==
    IF cloud_error.upstream_status.some THEN cloud_error.upstream_status.v
    ELSE IF ends_with(cloud_error.code, ERROR_SUFFIX) THEN error.status
    ELSE LET code_str == strip_prefix(cloud_error.code, UPSTREAM_HTTP_PREFIX)
             code == IF code_str.some THEN parse_u16(code_str.v) ELSE None
             status == IF code.some THEN StatusCode_from_u16(code.v) ELSE None
         IN  IF status.some THEN status.v ELSE error.status

\* The conversion as it would be if a body that does not parse surfaced the parse
\* error instead of falling back
From_ApiError_PropagatesParseError(error) ==
    LET cloud_error == CloudApiError(error.body)
    IN  IF ~cloud_error.ok THEN [kind |-> "Other", provider |-> PROVIDER_NAME,
                                 message |-> "parse error"]
        ELSE IF starts_with(cloud_error.code, UPSTREAM_HTTP_PREFIX)
        THEN [kind |-> "UpstreamProviderError", message |-> cloud_error.message,
              status |-> UpstreamStatus(cloud_error, error), retry_after |-> None]
        ELSE from_http_status(PROVIDER_NAME, error.status, error.body, None)

\* The conversion as it would be if the fallback did not pass the body on
From_ApiError_DropsBody(error) ==
    LET cloud_error == CloudApiError(error.body)
    IN  IF cloud_error.ok /\ starts_with(cloud_error.code, UPSTREAM_HTTP_PREFIX)
        THEN [kind |-> "UpstreamProviderError", message |-> cloud_error.message,
              status |-> UpstreamStatus(cloud_error, error), retry_after |-> None]
        ELSE from_http_status(PROVIDER_NAME, error.status, TextBody(""), None)

\* The conversion as it would be if every body of the envelope's shape were taken
\* as an upstream error, whatever its code
From_ApiError_AnyCode(error) ==
    LET cloud_error == CloudApiError(error.body)
    IN  IF cloud_error.ok
        THEN [kind |-> "UpstreamProviderError", message |-> cloud_error.message,
              status |-> UpstreamStatus(cloud_error, error), retry_after |-> None]
        ELSE from_http_status(PROVIDER_NAME, error.status, error.body, None)

\* impl From<ApiError> for LanguageModelCompletionError
From_ApiError(error) ==
    LET cloud_error == CloudApiError(error.body)
    IN  IF cloud_error.ok /\ starts_with(cloud_error.code, UPSTREAM_HTTP_PREFIX)
        THEN LET retry_after == IF cloud_error.retry_after.some
                                THEN Duration_from_secs_f64(cloud_error.retry_after.v)
                                ELSE None
             IN  IF retry_after = Panic THEN Panic
                 ELSE [kind |-> "UpstreamProviderError", message |-> cloud_error.message,
                       status |-> UpstreamStatus(cloud_error, error),
                       retry_after |-> IF cloud_error.retry_after.some
                                       THEN Some(retry_after) ELSE None]
        ELSE from_http_status(PROVIDER_NAME, error.status, error.body, None)

\* The limiter as it would be with one slot more
RequestLimit_OneMore == 4 + 1

\* RateLimiter::new(4)
RequestLimit == 4

NumCalls == 6

Callers == 1..NumCalls

NoCompletion == [built |-> FALSE]

\* No event stream has been built
StreamIdle ==
    /\ completion = NoCompletion
    /\ chain = 1
    /\ lines_done = FALSE
    /\ wire = <<>>
    /\ raw = <<>>
    /\ pending = <<>>
    /\ out = <<>>
    /\ mapper = <<>>

\* One model object has been created and no caller has called it
LimiterIdle ==
    /\ permits = << RequestLimit >>
    /\ queue = << << >> >>
    /\ op = [c \in Callers |-> "idle"]
    /\ limiter_of = [c \in Callers |-> 0]
    /\ waited = {}

\* No other stream_completion call has a stream
NoOtherStream == [started |-> FALSE]

\* No concurrent calls are followed and there is no other stream
ConcurrentIdle ==
    /\ calls = << >>
    /\ other_stream = NoOtherStream

(***************************************************************************)
(* The conversion applied to a bounded set of ApiErrors.                   *)
(***************************************************************************)
Absent == [t |-> "absent"]

\* The headers the code reads, of a response that carries none of them
NoHeaders ==
    [expired |-> FALSE, status_messages |-> FALSE, tool_use_limit |-> FALSE,
     usage |-> "absent", resource |-> "absent", plan |-> "absent"]

Str_error == <<"e","r","r","o","r">>

Str_429 == <<"4","2","9">>

CodeSuffixes ==
    { Str_error, Str_429, <<"5","0","3">>, <<"9","9">>, <<"7","0","0","0","0">>,
      <<"+","4","2","9">>, <<"4","2","9">> \o ERROR_SUFFIX, <<"x">>, <<>> }

CodeMembers ==
    { JStr(UPSTREAM_HTTP_PREFIX \o sfx) : sfx \in CodeSuffixes }
      \cup { JStr(<<"i","n","t","e","r","n","a","l">> \o ERROR_SUFFIX),
             JStr(<<"u","p","s","t","r","e","a","m">>), JInt(429), Absent }

MessageMembers == { JStr("Upstream rate limit exceeded."), Absent }

UpstreamStatusMembers ==
    { Absent, JNull, JInt(99), JInt(429), JInt(503), JInt(1000), JInt(70000), JInt(-1),
      JFloat(5030), JStr("503") }

RetryAfterMembers == { Absent, JNull, JInt(0), JInt(30), JFloat(305), JInt(-1), JStr("30") }

Members == {"code", "message", "upstream_status", "retry_after"}

\* The JSON object with the members that are not Absent
Object(code, message, upstream_status, retry_after) ==
    LET all == [code |-> code, message |-> message,
                upstream_status |-> upstream_status, retry_after |-> retry_after]
    IN  [f \in {m \in Members : all[m] # Absent} |-> all[f]]

Bodies ==
    { TextBody("Regular internal server error"), TextBody("Not JSON at all"),
      ScalarBody(JInt(429)) }
      \cup { ObjectBody(Object(c, m, u, r)) :
                c \in CodeMembers, m \in MessageMembers,
                u \in UpstreamStatusMembers, r \in RetryAfterMembers }

FailureStatuses == {403, 429, 500, 503}

ApiErrors ==
    [status : FailureStatuses, body : Bodies,
     headers : {NoHeaders, [NoHeaders EXCEPT !.expired = TRUE]}]

NotConverted == [kind |-> "pending"]

NoResponse == [status |-> 0]

NoResult == [kind |-> "pending"]

\* No call has been made
CallIdle ==
    /\ model = [provider |-> "Anthropic", open_ai_id_known |-> FALSE]
    /\ app_version = None
    /\ llm_api_token = 0
    /\ external_refreshes = 0
    /\ pc = "idle"
    /\ token = 0
    /\ refreshed_token = FALSE
    /\ response = NoResponse
    /\ requests = <<>>
    /\ responses = <<>>
    /\ refreshed = <<>>
    /\ refresh_calls = 0
    /\ perform_result = NoResult
    /\ result = NoResult

ClassifyInit == api_error \in ApiErrors /\ completion_error = NotConverted

ClassifyIdle ==
    /\ api_error = [status |-> INTERNAL_SERVER_ERROR, body |-> TextBody(""), headers |-> NoHeaders]
    /\ completion_error = NotConverted

\* let completion_error: LanguageModelCompletionError = api_error.into();
Convert ==
    /\ completion_error = NotConverted
    /\ completion_error' = From_ApiError(api_error)
    /\ UNCHANGED <<concurrentVars, api_error, callVars, streamVars, limiterVars>>

InitClassify == ClassifyInit /\ CallIdle /\ StreamIdle /\ LimiterIdle /\ ConcurrentIdle

SpecClassify == InitClassify /\ [][Convert]_vars

(***************************************************************************)
(* Claims about the conversion (checked under SpecClassify).               *)
(***************************************************************************)
Converted == completion_error # NotConverted

\* The body has the envelope's shape, member by member: a JSON object with string
\* members code and message, upstream_status missing, null or an integer that fits
\* u16, retry_after missing, null or a number.
IsEnvelope(body) ==
    /\ body.json = "object"
    /\ \A f \in {"code", "message"} : f \in DOMAIN body.obj /\ body.obj[f].t = "string"
    /\ "upstream_status" \in DOMAIN body.obj =>
          \/ body.obj["upstream_status"].t = "null"
          \/ /\ body.obj["upstream_status"].t = "int"
             /\ body.obj["upstream_status"].n \in 0..U16_MAX
    /\ "retry_after" \in DOMAIN body.obj =>
          body.obj["retry_after"].t \in {"null", "int", "float"}

IsUpstreamEnvelope(body) ==
    IsEnvelope(body) /\ starts_with(body.obj["code"].s, UPSTREAM_HTTP_PREFIX)

\* An upstream_status member that is an HTTP status code (100..=999)
HasExplicitUpstreamStatus(body) ==
    /\ "upstream_status" \in DOMAIN body.obj
    /\ body.obj["upstream_status"].t = "int"
    /\ body.obj["upstream_status"].n \in 100..999

\* No upstream_status member, or a null one
HasNoUpstreamStatus(body) ==
    "upstream_status" \in DOMAIN body.obj => body.obj["upstream_status"].t = "null"

\* C6: for every ApiError whose body is an upstream-error envelope with an explicit
\* upstream_status, the conversion yields UpstreamProviderError whose status is that
\* upstream_status, whatever the outer HTTP status is.  (Stated for an upstream_status
\* that is a status code; the conversion panics in Duration::from_secs_f64 when such
\* an envelope carries a negative retry_after.)
C6_ExplicitUpstreamStatusWins ==
    (Converted /\ IsUpstreamEnvelope(api_error.body) /\ HasExplicitUpstreamStatus(api_error.body))
        => /\ completion_error.kind = "UpstreamProviderError"
           /\ completion_error.status = api_error.body.obj["upstream_status"].n

\* C7: for an envelope with code "upstream_http_error" and no upstream_status, the
\* conversion yields UpstreamProviderError whose status is the outer HTTP status.
C7_GenericSuffixUsesOuterStatus ==
    (Converted /\ IsEnvelope(api_error.body)
       /\ api_error.body.obj["code"].s = UPSTREAM_HTTP_PREFIX \o Str_error
       /\ HasNoUpstreamStatus(api_error.body))
        => /\ completion_error.kind = "UpstreamProviderError"
           /\ completion_error.status = api_error.status

\* C8: for an envelope with code "upstream_http_429", the conversion yields
\* UpstreamProviderError with status 429, taken from the code string, whatever the
\* outer HTTP status is.  (Stated for the envelopes the status is taken from the
\* code string for, those without an upstream_status; the conversion panics in
\* Duration::from_secs_f64 when such an envelope carries a negative retry_after.)
C8_NumericCodeGives429 ==
    (Converted /\ IsEnvelope(api_error.body)
       /\ api_error.body.obj["code"].s = UPSTREAM_HTTP_PREFIX \o Str_429
       /\ HasNoUpstreamStatus(api_error.body))
        => /\ completion_error.kind = "UpstreamProviderError"
           /\ completion_error.status = 429

\* C9: for every ApiError whose body is not JSON or not of the envelope's shape, the
\* conversion returns (it does not panic) the status-keyed error of the outer HTTP
\* status and the provider name, with the body as the message and no retry_after.
C9_MalformedBodyFallsBack ==
    (Converted /\ ~IsEnvelope(api_error.body))
        => /\ completion_error # Panic
           /\ completion_error.kind \in {"ApiInternalServerError", "StatusKeyed"}
           /\ completion_error.provider = PROVIDER_NAME
           /\ completion_error.message = api_error.body
           /\ completion_error.kind = "ApiInternalServerError"
                 <=> api_error.status = INTERNAL_SERVER_ERROR
           /\ completion_error.kind = "StatusKeyed"
                 => /\ completion_error.status = api_error.status
                    /\ completion_error.retry_after = None

C9_Witness ==
    /\ Converted
    /\ api_error.body = TextBody("Not JSON at all")
    /\ api_error.status = INTERNAL_SERVER_ERROR
    /\ completion_error.kind = "ApiInternalServerError"

\* C10: a plain HTTP 500 failure with an ordinary text body is converted to
\* ApiInternalServerError with the cloud provider name and the body, verbatim, as
\* the message.
C10_Plain500IsInternalServerError ==
    (Converted /\ api_error.status = INTERNAL_SERVER_ERROR /\ api_error.body.json = "no")
        => completion_error =
              [kind |-> "ApiInternalServerError", provider |-> PROVIDER_NAME,
               message |-> api_error.body]

C10_Witness ==
    /\ Converted
    /\ api_error.status = INTERNAL_SERVER_ERROR
    /\ api_error.body = TextBody("Regular internal server error")
    /\ completion_error.message = TextBody("Regular internal server error")

\* The seconds, in tenths, of a retry_after member that is a number
RetryAfterTenths(body) ==
    IF body.obj["retry_after"].t = "int" THEN 10 * body.obj["retry_after"].n
    ELSE body.obj["retry_after"].tenths

HasRetryAfter(body) ==
    "retry_after" \in DOMAIN body.obj /\ body.obj["retry_after"].t \in {"int", "float"}

\* C11: for every upstream-error envelope the conversion yields an
\* UpstreamProviderError whose retry hint is the envelope's retry_after, seconds
\* turned into a duration (30.5 gives exactly 30500 ms), and is absent when the
\* envelope has no retry_after (the member is missing or null).
C11_RetryHintIsRetryAfter ==
    (Converted /\ IsUpstreamEnvelope(api_error.body))
        => /\ completion_error.kind = "UpstreamProviderError"
           /\ HasRetryAfter(api_error.body) =>
                 completion_error.retry_after =
                    Some([millis |-> 100 * RetryAfterTenths(api_error.body)])
           /\ ~HasRetryAfter(api_error.body) => completion_error.retry_after = None
           /\ (HasRetryAfter(api_error.body) /\ api_error.body.obj["retry_after"] = JFloat(305))
                 => completion_error.retry_after = Some([millis |-> 30500])

\* The code of an envelope does not start with "upstream_http_"
IsOtherEnvelope(body) ==
    IsEnvelope(body) /\ ~starts_with(body.obj["code"].s, UPSTREAM_HTTP_PREFIX)

\* C30: when the body is of the envelope's shape but its code does not start with
\* "upstream_http_", the conversion yields the per-status kind of the outer HTTP
\* status and the provider name, with no retry_after and the whole body as the
\* message: the envelope's message, upstream_status and retry_after are not used.
C30_OtherCodeFallsBack ==
    (Converted /\ IsOtherEnvelope(api_error.body))
        => /\ completion_error.kind \in {"ApiInternalServerError", "StatusKeyed"}
           /\ completion_error.provider = PROVIDER_NAME
           /\ completion_error.message = api_error.body
           /\ completion_error.kind = "ApiInternalServerError"
                 <=> api_error.status = INTERNAL_SERVER_ERROR
           /\ completion_error.kind = "StatusKeyed"
                 => /\ completion_error.status = api_error.status
                    /\ completion_error.retry_after = None

C30_Witness ==
    /\ Converted
    /\ IsOtherEnvelope(api_error.body)
    /\ api_error.status = 429
    /\ "upstream_status" \in DOMAIN api_error.body.obj
    /\ api_error.body.obj["upstream_status"] = JInt(503)
    /\ "retry_after" \in DOMAIN api_error.body.obj
    /\ api_error.body.obj["retry_after"] = JInt(-1)
    /\ completion_error.kind = "StatusKeyed"
    /\ completion_error.status = 429
    /\ completion_error.retry_after = None

\* C31: the conversion is total: for every ApiError, an upstream-error envelope
\* with a zero, negative or large retry_after included, it returns an error value
\* and does not panic.
C31_ConversionIsTotal ==
    Converted => /\ completion_error # Panic
                 /\ completion_error.kind \in
                       {"UpstreamProviderError", "ApiInternalServerError", "StatusKeyed"}

\* The status the conversion settles on for the upstream-error envelope at hand
EffectiveStatus == UpstreamStatus(CloudApiError(api_error.body), api_error)

\* The upstream_status member is an integer that fits u16 and is not a status code
HasInvalidUpstreamStatus(body) ==
    /\ "upstream_status" \in DOMAIN body.obj
    /\ body.obj["upstream_status"].t = "int"
    /\ body.obj["upstream_status"].n \in (0..U16_MAX) \ (100..999)

\* The body without its upstream_status member
WithoutUpstreamStatus(body) ==
    ObjectBody([f \in DOMAIN body.obj \ {"upstream_status"} |-> body.obj[f]])

\* What follows "upstream_http_" in the code is a number that is a status code
SuffixIsStatus(code) ==
    LET n == parse_u16(SubSeq(code, Len(UPSTREAM_HTTP_PREFIX) + 1, Len(code)))
    IN  n.some /\ StatusCode_from_u16(n.v).some

FORBIDDEN == 403

PAYMENT_REQUIRED == 402

MaxExternalRefreshes == 1

MODEL_REQUESTS_RESOURCE_HEADER_VALUE == "model_requests"

Providers == {"Anthropic", "OpenAi", "Google"}

Models ==
    { m \in [provider : Providers, open_ai_id_known : BOOLEAN] :
        m.open_ai_id_known => m.provider = "OpenAi" }

\* status.is_success()
is_success(status) == status >= 200 /\ status < 300

\* cloud_llm_client::Plan::from_str
Plan_from_str(plan) ==
    CASE plan = "zed_free" -> Some("ZedFree")
      [] plan = "zed_pro" -> Some("ZedPro")
      [] plan = "zed_pro_trial" -> Some("ZedProTrial")
      [] OTHER -> None

\* match plan { ZedFree => proto::Plan::Free, ... }
proto_Plan(plan) ==
    CASE plan = "ZedFree" -> "Free"
      [] plan = "ZedPro" -> "ZedPro"
      [] plan = "ZedProTrial" -> "ZedProTrial"

\* The usage as it would be if headers that do not parse gave a zero usage
ModelRequestUsage_from_headers_ZeroWhenInvalid(headers) ==
    CASE headers.usage = "valid" -> Some([amount |-> 7, limit |-> 50])
      [] headers.usage = "invalid" -> Some([amount |-> 0, limit |-> 0])
      [] OTHER -> None

\* ModelRequestUsage::from_headers(response.headers()).ok()
ModelRequestUsage_from_headers(headers) ==
    IF headers.usage = "valid" THEN Some([amount |-> 7, limit |-> 50]) ELSE None

\* The body of a success response: the lines response_lines reads
LinesBody == [json |-> "lines"]

SuccessResponses ==
    { [status |-> 200, body |-> LinesBody,
       headers |-> [NoHeaders EXCEPT !.status_messages = sm, !.tool_use_limit = tl, !.usage = u]] :
         sm \in BOOLEAN, tl \in BOOLEAN, u \in {"absent", "valid", "invalid"} }

CallBodies ==
    { TextBody("Regular internal server error"),
      ObjectBody(Object(JStr(UPSTREAM_HTTP_PREFIX \o Str_429),
                        JStr("Upstream rate limit exceeded."), Absent, JFloat(305))) }

FailureResponses ==
    { [status |-> FORBIDDEN, body |-> b,
       headers |-> [NoHeaders EXCEPT !.expired = e, !.resource = r, !.plan = p]] :
         b \in CallBodies, e \in BOOLEAN,
         r \in {"absent", MODEL_REQUESTS_RESOURCE_HEADER_VALUE, "edit_predictions"},
         p \in {"absent", "zed_free", "zed_pro", "zed_pro_trial", "unknown"} }
      \cup
    { [status |-> PAYMENT_REQUIRED, body |-> b,
       headers |-> [NoHeaders EXCEPT !.expired = e, !.resource = r, !.plan = p]] :
         b \in CallBodies, e \in BOOLEAN,
         r \in {"absent", MODEL_REQUESTS_RESOURCE_HEADER_VALUE},
         p \in {"absent", "zed_pro"} }
      \cup
    { [status |-> st, body |-> b, headers |-> [NoHeaders EXCEPT !.expired = e]] :
         st \in {401, INTERNAL_SERVER_ERROR}, b \in CallBodies, e \in BOOLEAN }

Responses == SuccessResponses \cup FailureResponses

Ok(v) == [ok |-> TRUE, v |-> v]

Err(e) == [ok |-> FALSE, error |-> e]

\* The request as it would be if it read the shared token when it is sent
Request_ReadsSharedToken(version, bearer, body) ==
    [method |-> "POST", uri |-> "/completions",
     headers |-> [zed_version |-> version, content_type |-> "application/json",
                  authorization |-> llm_api_token, client_supports_status_messages |-> "true"],
     body |-> body]

\* The request as it would be if it always carried a version header
Request_AlwaysVersion(version, bearer, body) ==
    [method |-> "POST", uri |-> "/completions",
     headers |-> [zed_version |-> Some("0.1.0"), content_type |-> "application/json",
                  authorization |-> bearer, client_supports_status_messages |-> "true"],
     body |-> body]

\* http_client::Request::builder() ... .body(serde_json::to_string(&body)?.into())
Request(version, bearer, body) ==
    [method |-> "POST", uri |-> "/completions",
     headers |-> [zed_version |-> version, content_type |-> "application/json",
                  authorization |-> bearer, client_supports_status_messages |-> "true"],
     body |-> body]

\* CompletionBody { thread_id, prompt_id, intent, mode, provider, model, provider_request }
CompletionBody(m) == [provider |-> m.provider, model |-> "model-id", provider_request |-> "request"]

\* The success result as it would be if usage were parsed from the headers in
\* either mode
PerformLlmCompletionResponse_AlwaysParsesUsage(r) ==
    [response |-> r, usage |-> ModelRequestUsage_from_headers(r.headers),
     includes_status_messages |-> r.headers.status_messages,
     tool_use_limit_reached |-> r.headers.tool_use_limit]

\* The success result as it would be if the tool-use-limit header were left out in
\* status-message mode, as the usage headers are
PerformLlmCompletionResponse_SuppressesToolLimit(r) ==
    [response |-> r,
     usage |-> IF r.headers.status_messages THEN None
               ELSE ModelRequestUsage_from_headers(r.headers),
     includes_status_messages |-> r.headers.status_messages,
     tool_use_limit_reached |-> r.headers.tool_use_limit /\ ~r.headers.status_messages]

\* The success result as it would be if it were built from the first response of
\* the call
PerformLlmCompletionResponse_OfFirstResponse(r) ==
    LET first == IF responses = << >> THEN r ELSE responses[1]
    IN  [response |-> first, usage |-> None,
         includes_status_messages |-> first.headers.status_messages,
         tool_use_limit_reached |-> first.headers.tool_use_limit]

\* The Ok(PerformLlmCompletionResponse { .. }) of a success response
PerformLlmCompletionResponse(r) ==
    LET includes_status_messages == r.headers.status_messages
        tool_use_limit_reached == r.headers.tool_use_limit
        usage == IF includes_status_messages THEN None
                 ELSE ModelRequestUsage_from_headers(r.headers)
    IN  [response |-> r, usage |-> usage,
         includes_status_messages |-> includes_status_messages,
         tool_use_limit_reached |-> tool_use_limit_reached]

\* The retry condition as it would be if any first failure were retried
ShouldRefresh_AnyFailure(was_refreshed, r) == ~was_refreshed

\* The retry condition as it would be if one refresh served every request of the
\* client
ShouldRefresh_OncePerClient(was_refreshed, r) ==
    ~was_refreshed /\ r.headers.expired /\ refresh_calls = 0

\* The retry condition as it would be if the billing statuses were looked at first
ShouldRefresh_UnlessBillingStatus(was_refreshed, r) ==
    ~was_refreshed /\ r.headers.expired /\ r.status \notin {FORBIDDEN, PAYMENT_REQUIRED}

\* The retry condition as it would be without the refreshed_token guard
ShouldRefresh_Unguarded(was_refreshed, r) == r.headers.expired

\* if !refreshed_token && response.headers().get(EXPIRED_LLM_TOKEN_HEADER_NAME).is_some()
ShouldRefresh(was_refreshed, r) == ~was_refreshed /\ r.headers.expired

\* The failure rules as they would be if any 403 with a resource header were the
\* model-request quota
FailureReturn_AnyResourceIsQuota(r) ==
    IF r.status = FORBIDDEN /\ r.headers.resource # "absent"
    THEN Some([kind |-> "ModelRequestLimitReachedError",
               plan |-> IF Plan_from_str(r.headers.plan).some
                        THEN proto_Plan(Plan_from_str(r.headers.plan).v) ELSE "Free"])
    ELSE IF r.status = PAYMENT_REQUIRED
    THEN Some([kind |-> "PaymentRequiredError"])
    ELSE None

\* The failure rules as they would be without the 403 quota rule
FailureReturn_WithoutQuotaRule(r) ==
    IF r.status = PAYMENT_REQUIRED /\ r.headers.resource = "absent"
    THEN Some([kind |-> "PaymentRequiredError"])
    ELSE None

\* The failure rules as they would be if a subscription-limit-resource header kept
\* a 402 from the payment rule
FailureReturn_PaymentOnlyWithoutResource(r) ==
    IF r.headers.resource # "absent"
    THEN IF r.status = FORBIDDEN /\ r.headers.resource = MODEL_REQUESTS_RESOURCE_HEADER_VALUE
            /\ Plan_from_str(r.headers.plan).some
         THEN Some([kind |-> "ModelRequestLimitReachedError",
                    plan |-> proto_Plan(Plan_from_str(r.headers.plan).v)])
         ELSE None
    ELSE IF r.status = PAYMENT_REQUIRED
    THEN Some([kind |-> "PaymentRequiredError"])
    ELSE None

\* What a failure response that is not retried leads to, before its body is read:
\* an error returned at once, or None when the body is to be read
FailureReturn(r) ==
    IF r.status = FORBIDDEN /\ r.headers.resource # "absent"
    THEN IF r.headers.resource = MODEL_REQUESTS_RESOURCE_HEADER_VALUE
            /\ Plan_from_str(r.headers.plan).some
         THEN Some([kind |-> "ModelRequestLimitReachedError",
                    plan |-> proto_Plan(Plan_from_str(r.headers.plan).v)])
         ELSE None
    ELSE IF r.status = PAYMENT_REQUIRED
    THEN Some([kind |-> "PaymentRequiredError"])
    ELSE None

\* The error as it would be if it captured the first response of the call
ApiError_OfFirstResponse(r) ==
    [kind |-> "ApiError", status |-> responses[1].status, body |-> responses[1].body,
     headers |-> responses[1].headers]

\* ApiError { status, body, headers }
ApiError(r) == [kind |-> "ApiError", status |-> r.status, body |-> r.body, headers |-> r.headers]

\* From<anyhow::Error> for LanguageModelCompletionError, at `future.await?`
From_anyhow(e) == [kind |-> "Other", error |-> e]

\* .map_err(|err| match err.downcast::<ApiError>() { Ok(api_err) => anyhow!(
\* LanguageModelCompletionError::from(api_err)), Err(err) => anyhow!(err) }) in the
\* Anthropic arm; the OpenAi and Google arms pass the error on with `?`
MapPerformError(prov, e) ==
    IF prov = "Anthropic" /\ e.kind = "ApiError"
    THEN From_ApiError([status |-> e.status, body |-> e.body, headers |-> e.headers])
    ELSE e

\* What the future of stream_completion resolves to, given what
\* perform_llm_completion returned
Resolve(m, res) ==
    IF res.ok
    THEN Ok([mapper |-> m.provider,
             includes_status_messages |-> res.v.includes_status_messages,
             usage |-> res.v.usage,
             tool_use_limit_reached |-> res.v.tool_use_limit_reached])
    ELSE LET e == MapPerformError(m.provider, res.error)
         IN  IF e = Panic THEN Panic ELSE Err(From_anyhow(e))

CallInit ==
    /\ model \in Models
    /\ app_version \in {None, Some("0.1.0")}
    /\ llm_api_token \in {0, 1}
    /\ external_refreshes = 0
    /\ pc = "idle"
    /\ token = 0
    /\ refreshed_token = FALSE
    /\ response = NoResponse
    /\ requests = <<>>
    /\ responses = <<>>
    /\ refreshed = <<>>
    /\ refresh_calls = 0
    /\ perform_result = NoResult
    /\ result = NoResult

\* perform_llm_completion returns res: the rest of the async block runs and the
\* future resolves
Return(res) ==
    /\ perform_result' = res
    /\ result' = Resolve(model, res)
    /\ pc' = "done"

\* stream_completion as it would be if the OpenAi arm did not look the model id up
StreamCompletion_NoModelCheck ==
    /\ pc = "idle"
    /\ pc' = "start"
    /\ UNCHANGED <<concurrentVars, streamVars, limiterVars, classifyVars, model, app_version, llm_api_token, external_refreshes,
                   token, refreshed_token, response, requests, responses, refreshed,
                   refresh_calls, perform_result, result>>

\* stream_completion is called: the OpenAi arm returns an error at once for a model
\* id open_ai::Model::from_id does not know; otherwise the future is created
StreamCompletion ==
    /\ pc = "idle"
    /\ IF model.provider = "OpenAi" /\ ~model.open_ai_id_known
       THEN /\ result' = Err(From_anyhow([kind |-> "UnknownOpenAiModel"]))
            /\ pc' = "done"
       ELSE /\ pc' = "start"
            /\ UNCHANGED result
    /\ UNCHANGED <<concurrentVars, streamVars, limiterVars, classifyVars, model, app_version, llm_api_token, external_refreshes,
                   token, refreshed_token, response, requests, responses, refreshed,
                   refresh_calls, perform_result>>

\* The async block starts: serde_json::to_value(&request) fails
EncodeFails ==
    /\ pc = "start"
    /\ result' = Err(From_anyhow([kind |-> "SerdeError"]))
    /\ pc' = "done"
    /\ UNCHANGED <<concurrentVars, streamVars, limiterVars, classifyVars, model, app_version, llm_api_token, external_refreshes,
                   token, refreshed_token, response, requests, responses, refreshed,
                   refresh_calls, perform_result>>

\* let mut token = llm_api_token.acquire(&client).await?  (a token is fetched when
\* none is held, and only that can fail)
Acquire ==
    /\ pc = "start"
    /\ \/ /\ llm_api_token' = IF llm_api_token = 0 THEN 1 ELSE llm_api_token
          /\ token' = llm_api_token'
          /\ pc' = "send"
          /\ UNCHANGED <<perform_result, result>>
       \/ /\ llm_api_token = 0
          /\ Return(Err([kind |-> "TokenError"]))
          /\ UNCHANGED <<llm_api_token, token>>
    /\ UNCHANGED <<concurrentVars, streamVars, limiterVars, classifyVars, model, app_version, external_refreshes, refreshed_token,
                   response, requests, responses, refreshed, refresh_calls>>

\* One pass of the loop up to its next await: the request is built and sent, and the
\* response, if one comes, is looked at
Send ==
    /\ pc = "send"
    /\ requests' = Append(requests, Request(app_version, token, CompletionBody(model)))
    /\ \/ /\ Return(Err([kind |-> "TransportError"]))
          /\ UNCHANGED <<response, responses>>
       \/ \E r \in Responses :
            /\ responses' = Append(responses, r)
            /\ IF is_success(r.status)
               THEN Return(Ok(PerformLlmCompletionResponse(r))) /\ UNCHANGED response
               ELSE IF ShouldRefresh(refreshed_token, r)
               THEN pc' = "refresh" /\ UNCHANGED <<response, perform_result, result>>
               ELSE IF FailureReturn(r).some
               THEN Return(Err(FailureReturn(r).v)) /\ UNCHANGED response
               ELSE /\ pc' = "read_body"
                    /\ response' = r
                    /\ UNCHANGED <<perform_result, result>>
    /\ UNCHANGED <<concurrentVars, streamVars, limiterVars, classifyVars, model, app_version, llm_api_token, external_refreshes,
                   token, refreshed_token, refreshed, refresh_calls>>

\* The refresh as it would be if the loop went on with the old token when the
\* refresh fails
Refresh_GoesOnWhenItFails ==
    /\ pc = "refresh"
    /\ refresh_calls' = refresh_calls + 1
    /\ refreshed_token' = TRUE
    /\ pc' = "send"
    /\ \/ /\ llm_api_token' = llm_api_token + 1
          /\ token' = llm_api_token'
          /\ refreshed' = Append(refreshed, llm_api_token')
       \/ UNCHANGED <<llm_api_token, token, refreshed>>
    /\ UNCHANGED <<concurrentVars, streamVars, limiterVars, classifyVars, model, app_version,
                   external_refreshes, response, requests, responses, perform_result, result>>

\* token = llm_api_token.refresh(&client).await?; refreshed_token = true; continue
Refresh ==
    /\ pc = "refresh"
    /\ refresh_calls' = refresh_calls + 1
    /\ \/ /\ llm_api_token' = llm_api_token + 1
          /\ token' = llm_api_token'
          /\ refreshed' = Append(refreshed, llm_api_token')
          /\ refreshed_token' = TRUE
          /\ pc' = "send"
          /\ UNCHANGED <<perform_result, result>>
       \/ /\ Return(Err([kind |-> "TokenError"]))
          /\ UNCHANGED <<llm_api_token, token, refreshed, refreshed_token>>
    /\ UNCHANGED <<concurrentVars, streamVars, limiterVars, classifyVars, model, app_version, external_refreshes, response, requests,
                   responses>>

\* response.body_mut().read_to_string(&mut body).await?; return Err(anyhow!(ApiError {..}))
ReadBody ==
    /\ pc = "read_body"
    /\ \/ Return(Err([kind |-> "IoError"]))
       \/ Return(Err(ApiError(response)))
    /\ UNCHANGED <<concurrentVars, streamVars, limiterVars, classifyVars, model, app_version, llm_api_token, external_refreshes,
                   token, refreshed_token, response, requests, responses, refreshed,
                   refresh_calls>>

\* The RefreshLlmTokenListener subscription of State::new refreshes the shared token
ExternalRefresh ==
    /\ external_refreshes < MaxExternalRefreshes
    /\ external_refreshes' = external_refreshes + 1
    /\ llm_api_token' = llm_api_token + 1
    /\ UNCHANGED <<concurrentVars, streamVars, limiterVars, classifyVars, model, app_version, pc, token, refreshed_token, response,
                   requests, responses, refreshed, refresh_calls, perform_result, result>>

Next == StreamCompletion \/ EncodeFails \/ Acquire \/ Send \/ Refresh \/ ReadBody \/ ExternalRefresh

Init == ClassifyIdle /\ CallInit /\ StreamIdle /\ LimiterIdle /\ ConcurrentIdle

Spec == Init /\ [][Next]_vars

\* A step of the call's own future: every await of the async block resolves
PerformStep == EncodeFails \/ Acquire \/ Send \/ Refresh \/ ReadBody

SpecTerminating == Init /\ [][Next]_vars /\ WF_vars(PerformStep)

(***************************************************************************)
(* Several perform_llm_completion calls of one client run concurrently:    *)
(* each has its own locals, all share the client's LlmApiToken.            *)
(***************************************************************************)
NumConcurrent == 2

ConcurrentCalls == 1..NumConcurrent

\* The locals of a call that has not started
NewCall ==
    [pc |-> "start", token |-> 0, refreshed_token |-> FALSE, requests |-> << >>,
     responses |-> << >>, refreshed |-> << >>, refresh_calls |-> 0, result |-> NoResult]

\* The responses of the concurrent scenario: the success without headers, and the
\* 401 and 402 failures with and without the expired-token header
ConcurrentResponses ==
    { r \in Responses :
        /\ r.status \in {200, 401, PAYMENT_REQUIRED}
        /\ r.status = 200 => r.headers = NoHeaders
        /\ r.status # 200 =>
              /\ r.body = TextBody("Regular internal server error")
              /\ r.headers.resource = "absent"
              /\ r.headers.plan = "absent" }

\* Call k returns res
CallReturn(k, c, res) == calls' = [calls EXCEPT ![k] = [c EXCEPT !.pc = "done", !.result = res]]

\* let mut token = llm_api_token.acquire(&client).await? of call k
CallAcquire(k) ==
    /\ calls[k].pc = "start"
    /\ \/ /\ llm_api_token' = IF llm_api_token = 0 THEN 1 ELSE llm_api_token
          /\ calls' = [calls EXCEPT ![k].token = llm_api_token', ![k].pc = "send"]
       \/ /\ llm_api_token = 0
          /\ CallReturn(k, calls[k], Err([kind |-> "TokenError"]))
          /\ UNCHANGED llm_api_token
    /\ UNCHANGED refresh_calls

\* One pass of the loop of call k: the request is built and sent and the response
\* looked at; a failure that is not retried ends the call with its error
CallSend(k) ==
    /\ calls[k].pc = "send"
    /\ LET c == [calls[k] EXCEPT
                   !.requests = Append(@, Request(app_version, calls[k].token,
                                                  CompletionBody(model)))]
       IN  \/ CallReturn(k, c, Err([kind |-> "TransportError"]))
           \/ \E r \in ConcurrentResponses :
                LET got == [c EXCEPT !.responses = Append(@, r)]
                IN  IF is_success(r.status)
                    THEN CallReturn(k, got, Ok(PerformLlmCompletionResponse(r)))
                    ELSE IF ShouldRefresh(got.refreshed_token, r)
                    THEN calls' = [calls EXCEPT ![k] = [got EXCEPT !.pc = "refresh"]]
                    ELSE IF FailureReturn(r).some
                    THEN CallReturn(k, got, Err(FailureReturn(r).v))
                    ELSE \/ CallReturn(k, got, Err([kind |-> "IoError"]))
                         \/ CallReturn(k, got, Err(ApiError(r)))
    /\ UNCHANGED <<llm_api_token, refresh_calls>>

\* token = llm_api_token.refresh(&client).await?; refreshed_token = true; continue
\* of call k: the shared token is replaced and the call gets the new value
CallRefresh(k) ==
    /\ calls[k].pc = "refresh"
    /\ refresh_calls' = refresh_calls + 1
    /\ \/ /\ llm_api_token' = llm_api_token + 1
          /\ calls' = [calls EXCEPT ![k].token = llm_api_token',
                                    ![k].refreshed = Append(@, llm_api_token'),
                                    ![k].refresh_calls = @ + 1,
                                    ![k].refreshed_token = TRUE,
                                    ![k].pc = "send"]
       \/ /\ CallReturn(k, [calls[k] EXCEPT !.refresh_calls = @ + 1],
                         Err([kind |-> "TokenError"]))
          /\ UNCHANGED llm_api_token

\* A step of one of the concurrent calls
CallStep(k) ==
    /\ \/ CallAcquire(k)
       \/ CallSend(k)
       \/ CallRefresh(k)
    /\ UNCHANGED <<classifyVars, streamVars, limiterVars, other_stream, model, app_version,
                   external_refreshes, pc, token, refreshed_token, response, requests,
                   responses, refreshed, perform_result, result>>

NextConcurrent == \E k \in ConcurrentCalls : CallStep(k)

InitConcurrent ==
    /\ ClassifyIdle
    /\ CallIdle
    /\ StreamIdle
    /\ LimiterIdle
    /\ calls = [k \in ConcurrentCalls |-> NewCall]
    /\ other_stream = NoOtherStream

SpecConcurrent == InitConcurrent /\ [][NextConcurrent]_vars

(***************************************************************************)
(* Claims about perform_llm_completion (checked under Spec).               *)
(***************************************************************************)
\* The i-th response received is a failure that carries the expired-token header
ExpiredFailure(i) ==
    /\ Len(responses) >= i
    /\ ~is_success(responses[i].status)
    /\ responses[i].headers.expired

\* C1: when the first response is a failure carrying the expired-token header, the
\* token is refreshed once and only once and, the refresh having returned a token,
\* the request is sent again once and only once, with the token the refresh
\* returned; when the second response is again such a failure there is no further
\* refresh and no further send, and the call returns an error.  Nothing else
\* leads to a refresh or to a second send.
C1_SingleRefreshRetry ==
    /\ refresh_calls <= 1
    /\ Len(refreshed) <= refresh_calls
    /\ Len(requests) <= 2
    /\ (refresh_calls >= 1 \/ Len(requests) = 2 \/ pc = "refresh") => ExpiredFailure(1)
    /\ ExpiredFailure(1) =>
          /\ pc = "refresh" <=> refresh_calls = 0
          /\ refresh_calls = 1 /\ refreshed = <<>> => pc = "done" /\ ~perform_result.ok
          /\ Len(refreshed) = 1 =>
                /\ token = refreshed[1]
                /\ pc = "send" <=> Len(requests) = 1
                /\ Len(requests) = 2 => requests[2].headers.authorization = refreshed[1]
          /\ ExpiredFailure(2) =>
                /\ pc \in {"read_body", "done"}
                /\ pc = "done" => ~perform_result.ok

C1_Witness ==
    /\ pc = "done"
    /\ ExpiredFailure(1)
    /\ ExpiredFailure(2)
    /\ refresh_calls = 1
    /\ Len(requests) = 2
    /\ requests[2].headers.authorization = refreshed[1]
    /\ ~perform_result.ok

Received == Len(responses)

\* The response received last
Final == responses[Received]

\* The response received last is a failure that does not lead to the expiry retry:
\* it is the first without the expired-token header, or it is the second
FinalFailure ==
    /\ Received >= 1
    /\ ~is_success(Final.status)
    /\ Received = 2 \/ ~Final.headers.expired

\* A 403 whose subscription-limit-resource header names the model-request quota and
\* whose current-plan header is one of the three plans
IsQuota(r) ==
    /\ r.status = 403
    /\ r.headers.resource = "model_requests"
    /\ r.headers.plan \in {"zed_free", "zed_pro", "zed_pro_trial"}

HeaderPlan(plan) ==
    CASE plan = "zed_free" -> "Free"
      [] plan = "zed_pro" -> "ZedPro"
      [] plan = "zed_pro_trial" -> "ZedProTrial"

\* C12: a 403 failure whose resource header names the model-request quota and whose
\* plan header is a recognized plan, and which does not lead to the expiry retry,
\* makes perform_llm_completion return ModelRequestLimitReached with the header's
\* plan at once: the body is not read and no request or refresh follows.
C12_QuotaFailureIsTerminal ==
    (FinalFailure /\ IsQuota(Final))
        => /\ pc = "done"
           /\ perform_result = Err([kind |-> "ModelRequestLimitReachedError",
                                    plan |-> HeaderPlan(Final.headers.plan)])
           /\ response = NoResponse
           /\ Len(requests) = Received
           /\ refresh_calls = Received - 1

C12_Witness ==
    /\ FinalFailure
    /\ Received = 2
    /\ IsQuota(Final)
    /\ Final.headers.plan = "zed_free"
    /\ pc = "done"
    /\ perform_result = Err([kind |-> "ModelRequestLimitReachedError", plan |-> "Free"])

\* C13: a 402 failure that does not lead to the expiry retry makes
\* perform_llm_completion return PaymentRequired at once, whatever its body and its
\* other headers are: the body is not read and no request or refresh follows.
C13_PaymentRequiredIsTerminal ==
    (FinalFailure /\ Final.status = 402)
        => /\ pc = "done"
           /\ perform_result = Err([kind |-> "PaymentRequiredError"])
           /\ response = NoResponse
           /\ Len(requests) = Received
           /\ refresh_calls = Received - 1

C13_Witness ==
    /\ FinalFailure
    /\ Received = 1
    /\ Final.status = 402
    /\ Final.headers.resource = "model_requests"
    /\ Final.headers.plan = "zed_pro"
    /\ Final.body.json = "object"
    /\ pc = "done"
    /\ perform_result = Err([kind |-> "PaymentRequiredError"])

\* C14: every failure that is not retried for expiry, is not a 403 quota response
\* with a recognized plan and is not a 402 has its body read, and the call ends with
\* an ApiError holding the status, the body and the headers of that response, the
\* last one received (or, when reading the body fails, with the read error); no
\* request or refresh follows.
C14_OtherFailureIsApiError ==
    (FinalFailure /\ ~IsQuota(Final) /\ Final.status # 402)
        => /\ pc \in {"read_body", "done"}
           /\ response = Final
           /\ Len(requests) = Received
           /\ refresh_calls = Received - 1
           /\ pc = "done" =>
                 \/ perform_result = Err([kind |-> "ApiError", status |-> Final.status,
                                          body |-> Final.body, headers |-> Final.headers])
                 \/ perform_result = Err([kind |-> "IoError"])

C14_Witness ==
    /\ FinalFailure
    /\ Received = 2
    /\ responses[1].status = 401
    /\ responses[1].body.json = "no"
    /\ Final.status = 500
    /\ Final.body.json = "object"
    /\ Final.headers.expired
    /\ pc = "done"
    /\ perform_result.error.kind = "ApiError"
    /\ perform_result.error.body = Final.body
    /\ perform_result.error.status = 500

\* The first response is a failure without the expired-token header
PlainFailure ==
    /\ Received >= 1
    /\ ~is_success(responses[1].status)
    /\ ~responses[1].headers.expired

C15_Bounded ==
    /\ Len(requests) <= 2
    /\ refresh_calls <= 1
    /\ Received <= Len(requests)
    /\ PlainFailure =>
          /\ Len(requests) = 1
          /\ refresh_calls = 0
          /\ pc \in {"read_body", "done"}
    /\ pc = "done" => result # NoResult

\* C15: a call sends at most two requests and makes at most one token refresh; a
\* failure without the expired-token header is never retried (one send, no
\* refresh); and, every acquire, send, refresh and body read resolving, a call that
\* has started ends with a result or an error.
C15_BoundedAndTerminates ==
    /\ []C15_Bounded
    /\ (pc = "start") ~> (pc = "done" /\ result # NoResult)

C15_Witness ==
    /\ pc = "done"
    /\ Len(requests) = 2
    /\ refresh_calls = 1
    /\ perform_result.ok
    /\ result.ok

\* perform_llm_completion has returned a generic ApiError
ReturnedApiError ==
    /\ pc = "done"
    /\ perform_result # NoResult
    /\ ~perform_result.ok
    /\ perform_result.error.kind = "ApiError"

\* C18: for each of the three provider kinds an ApiError returned by
\* perform_llm_completion goes through the ApiError to LanguageModelCompletionError
\* conversion before stream_completion's future hands it to the caller: the caller
\* gets the converted error, never the ApiError itself.
C18_ApiErrorIsClassified ==
    ReturnedApiError
        => \/ result = Panic
           \/ /\ ~result.ok
              /\ result.error.error.kind # "ApiError"
              /\ result.error.error =
                    From_ApiError([status |-> perform_result.error.status,
                                   body |-> perform_result.error.body,
                                   headers |-> perform_result.error.headers])

\* The kinds of error perform_llm_completion returns
PerformErrorKinds ==
    {"ModelRequestLimitReachedError", "PaymentRequiredError", "ApiError", "TokenError",
     "TransportError", "IoError"}

\* The kinds of LanguageModelCompletionError the conversion yields
CompletionErrorKinds == {"UpstreamProviderError", "ApiInternalServerError", "StatusKeyed"}

\* perform_llm_completion has returned: a result or one error, a result only for a
\* success response, and for a failure the one error its rule gives
OneOutcomePerCall ==
    (pc = "done" /\ perform_result # NoResult)
        => IF perform_result.ok
           THEN /\ DOMAIN perform_result = {"ok", "v"}
                /\ responses # << >>
                /\ is_success(responses[Len(responses)].status)
           ELSE /\ DOMAIN perform_result = {"ok", "error"}
                /\ perform_result.error.kind \in PerformErrorKinds
                /\ responses # << >> => ~is_success(responses[Len(responses)].status)
                /\ perform_result.error.kind = "ModelRequestLimitReachedError"
                      => /\ responses # << >>
                         /\ responses[Len(responses)].status = 403
                /\ perform_result.error.kind = "PaymentRequiredError"
                      => /\ responses # << >>
                         /\ responses[Len(responses)].status = 402
                /\ perform_result.error.kind \in {"ApiError", "IoError"}
                      => /\ response # NoResponse
                         /\ response.status # 402

\* C23: a failed perform_llm_completion returns exactly one error, of one of the
\* kinds ModelRequestLimitReached, PaymentRequired, ApiError or a token, transport
\* or read error, and never a result with it; and the conversion gives every
\* ApiError exactly one LanguageModelCompletionError kind.
C23_ExactlyOneErrorKind ==
    /\ OneOutcomePerCall
    /\ Converted => completion_error.kind \in CompletionErrorKinds

\* C24: when the first response is a failure carrying the expired-token header and
\* the second response is a success, the call returns the success result built from
\* the second response (the response itself, and the status-message,
\* tool-use-limit and usage headers of that response), and the future resolves with
\* the stream: no error and nothing of the first response reaches the caller.
C24_RefreshIsTransparent ==
    (Received = 2 /\ ExpiredFailure(1) /\ is_success(responses[2].status))
        => /\ pc = "done"
           /\ perform_result.ok
           /\ perform_result.v.response = responses[2]
           /\ perform_result.v.includes_status_messages = responses[2].headers.status_messages
           /\ perform_result.v.tool_use_limit_reached = responses[2].headers.tool_use_limit
           /\ perform_result.v.usage =
                 IF ~responses[2].headers.status_messages /\ responses[2].headers.usage = "valid"
                 THEN Some([amount |-> 7, limit |-> 50]) ELSE None
           /\ result.ok
           /\ result.v.includes_status_messages = responses[2].headers.status_messages
           /\ result.v.tool_use_limit_reached = responses[2].headers.tool_use_limit
           /\ result.v.usage = perform_result.v.usage

C24_Witness ==
    /\ Received = 2
    /\ ExpiredFailure(1)
    /\ responses[1].status = 403
    /\ responses[1].headers.resource = "model_requests"
    /\ responses[2].status = 200
    /\ responses[2].headers.status_messages
    /\ responses[2].headers.tool_use_limit
    /\ pc = "done"
    /\ result.ok
    /\ result.v.tool_use_limit_reached

\* C25: the token a request carries is the value of the call's own `token`, which
\* changes only at the call's own acquire and refresh: a refresh of the shared
\* token by the refresh listener or by another request, before or after the send,
\* changes neither `token` nor what has been or will be sent, and the call's next
\* step is never held back by it.
C25_CopiedOnUse ==
    /\ token' # token => pc \in {"start", "refresh"}
    /\ Len(requests') > Len(requests) =>
          /\ requests' = Append(requests, requests'[Len(requests')])
          /\ requests'[Len(requests')].headers.authorization = token
          /\ token' = token
    /\ llm_api_token' # llm_api_token =>
          \/ pc \in {"start", "refresh"} /\ token' = llm_api_token'
          \/ token' = token /\ requests' = requests

C25_TokenIsCopiedOnUse ==
    /\ [](pc \in {"start", "send", "refresh", "read_body"} => ENABLED PerformStep)
    /\ [][C25_CopiedOnUse]_vars

C25_Witness ==
    /\ external_refreshes = 1
    /\ refresh_calls = 0
    /\ Len(requests) = 1
    /\ requests[1].headers.authorization # llm_api_token
    /\ requests[1].headers.authorization = token
    /\ pc = "done"
    /\ perform_result.ok

\* C27: every request sent is a POST with the bearer Authorization header,
\* Content-Type application/json and the client-supports-status-messages header set
\* to true, and has the version header if and only if an app version was given;
\* the retry differs from the first attempt in the bearer token only.
C27_RequestShape ==
    /\ \A i \in 1..Len(requests) :
          /\ requests[i].method = "POST"
          /\ requests[i].uri = "/completions"
          /\ DOMAIN requests[i].headers =
                {"zed_version", "content_type", "authorization",
                 "client_supports_status_messages"}
          /\ requests[i].headers.content_type = "application/json"
          /\ requests[i].headers.client_supports_status_messages = "true"
          /\ requests[i].headers.authorization \in 1..(MaxExternalRefreshes + 3)
          /\ requests[i].headers.zed_version.some <=> app_version.some
          /\ app_version.some => requests[i].headers.zed_version.v = app_version.v
          /\ requests[i].body = [provider |-> model.provider, model |-> "model-id",
                                  provider_request |-> "request"]
    /\ Len(requests) = 2 =>
          /\ requests[2] = [requests[1] EXCEPT !.headers.authorization = refreshed[1]]
          /\ requests[2].headers.authorization # requests[1].headers.authorization

C27_Witness ==
    /\ Len(requests) = 2
    /\ app_version = None
    /\ requests[1].headers.zed_version = None
    /\ requests[2].headers.authorization = refreshed[1]
    /\ requests[2].body = requests[1].body

\* The first response of concurrent call k is a failure with the expired-token
\* header
ExpiredFirst(k) ==
    /\ calls[k].responses # << >>
    /\ ~is_success(calls[k].responses[1].status)
    /\ calls[k].responses[1].headers.expired

\* Call k has made its call of refresh
PastRefresh(k) == ExpiredFirst(k) /\ calls[k].pc # "refresh"

\* Call k has sent its request a second time
Retried(k) == Len(calls[k].requests) = 2

\* C26: each concurrent call whose first response is a failure with the
\* expired-token header calls refresh once itself, whatever the others have done,
\* and, its refresh having returned a token, sends once more with that token: the
\* refresh calls made on the shared token are as many as such calls, and the
\* retries as many as the refreshes that returned.
C26_EachCallRefreshesItself ==
    /\ \A k \in ConcurrentCalls :
          /\ calls[k].refresh_calls = IF PastRefresh(k) THEN 1 ELSE 0
          /\ Len(calls[k].refreshed) <= calls[k].refresh_calls
          /\ Len(calls[k].requests) <= 2
          /\ calls[k].pc = "refresh" => ExpiredFirst(k)
          /\ Len(calls[k].refreshed) = 1 =>
                /\ calls[k].token = calls[k].refreshed[1]
                /\ calls[k].pc = "send" <=> ~Retried(k)
                /\ Retried(k) =>
                      calls[k].requests[2].headers.authorization = calls[k].refreshed[1]
                /\ \A j \in ConcurrentCalls \ {k} :
                      Len(calls[j].refreshed) = 1 => calls[j].refreshed[1] # calls[k].refreshed[1]
          /\ Retried(k) => Len(calls[k].refreshed) = 1
    /\ refresh_calls = Cardinality({ k \in ConcurrentCalls : PastRefresh(k) })
    /\ (\A k \in ConcurrentCalls : calls[k].pc = "done") =>
          Cardinality({ k \in ConcurrentCalls : Retried(k) })
            = Cardinality({ k \in ConcurrentCalls : Len(calls[k].refreshed) = 1 })

C26_Witness ==
    /\ \A k \in ConcurrentCalls :
          /\ calls[k].pc = "done"
          /\ ExpiredFirst(k)
          /\ Retried(k)
          /\ calls[k].result.ok
    /\ refresh_calls = NumConcurrent
    /\ llm_api_token = NumConcurrent + 1
    /\ \E k \in ConcurrentCalls : calls[k].requests[2].headers.authorization # llm_api_token

\* perform_llm_completion has returned the error of the token's acquire or refresh
ReturnedTokenError ==
    /\ pc = "done"
    /\ perform_result = Err([kind |-> "TokenError"])

\* The call's refresh has failed
RefreshFailed == refresh_calls = 1 /\ refreshed = << >>

\* C33: when the first acquire of the token fails the call returns that error and
\* no request has been sent; when the refresh after an expired-token failure fails
\* the call returns that error, the request is not sent a second time, and the
\* error the caller gets holds nothing of the first response.
C33_TokenErrorsEndTheCall ==
    /\ ReturnedTokenError =>
          /\ result = Err(From_anyhow([kind |-> "TokenError"]))
          /\ \/ refresh_calls = 0 /\ requests = << >> /\ responses = << >>
             \/ RefreshFailed /\ Len(requests) = 1 /\ ExpiredFailure(1)
    /\ RefreshFailed =>
          /\ ReturnedTokenError
          /\ Len(requests) = 1
          /\ Received = 1
          /\ response = NoResponse
    /\ (pc \in {"idle", "start"} \/ (pc = "done" /\ refresh_calls = 0 /\ Received = 0
                                       /\ perform_result # Err([kind |-> "TransportError"])))
          => requests = << >>

C33_Witness ==
    /\ RefreshFailed
    /\ ReturnedTokenError
    /\ responses[1].status = 500
    /\ responses[1].body.json = "object"
    /\ Len(requests) = 1
    /\ result = Err(From_anyhow([kind |-> "TokenError"]))

\* The outcome the billing and generic rules give for the failure r once the call
\* has returned: the quota error for a 403 quota response, PaymentRequired for a
\* 402, else the ApiError of r (or the error of reading its body)
RulesAppliedTo(r) ==
    IF IsQuota(r)
    THEN pc = "done" /\ perform_result = Err([kind |-> "ModelRequestLimitReachedError",
                                               plan |-> HeaderPlan(r.headers.plan)])
    ELSE IF r.status = 402
    THEN pc = "done" /\ perform_result = Err([kind |-> "PaymentRequiredError"])
    ELSE /\ pc \in {"read_body", "done"}
         /\ pc = "done" =>
               perform_result \in {Err([kind |-> "ApiError", status |-> r.status,
                                         body |-> r.body, headers |-> r.headers]),
                                    Err([kind |-> "IoError"])}

\* C34: a first failure with the expired-token header leads to the refresh and the
\* retry whatever its status is, a 402 or a 403 quota response included, and never
\* to PaymentRequired or ModelRequestLimitReached of that response; on the second
\* failure the header is not looked at, and the 403 quota rule, the 402 rule and the
\* generic rule are applied to the second response.
C34_ExpiryBeforeBilling ==
    /\ (ExpiredFailure(1) /\ Received = 1) =>
          \/ pc = "refresh" /\ refresh_calls = 0 /\ perform_result = NoResult
          \/ pc = "send" /\ refresh_calls = 1 /\ perform_result = NoResult
          \/ pc = "done" /\ refresh_calls = 1
               /\ perform_result \in {Err([kind |-> "TokenError"]),
                                       Err([kind |-> "TransportError"])}
    /\ (Received = 2 /\ ~is_success(responses[2].status)) =>
          /\ ExpiredFailure(1)
          /\ refresh_calls = 1
          /\ Len(requests) = 2
          /\ RulesAppliedTo(responses[2])

C34_Witness ==
    /\ Received = 2
    /\ responses[1].status = 402
    /\ responses[1].headers.expired
    /\ IsQuota(responses[2])
    /\ responses[2].headers.expired
    /\ responses[2].headers.plan = "zed_pro_trial"
    /\ pc = "done"
    /\ perform_result = Err([kind |-> "ModelRequestLimitReachedError", plan |-> "ZedProTrial"])

\* A 403 with a subscription-limit-resource header that is not a quota response:
\* the resource is another one, or the plan is missing or not recognized
ForbiddenNotQuota(r) ==
    /\ r.status = 403
    /\ r.headers.resource # "absent"
    /\ \/ r.headers.resource # "model_requests"
       \/ r.headers.plan \notin {"zed_free", "zed_pro", "zed_pro_trial"}

\* C35: a 403 failure whose resource header names another resource than the
\* model-request quota, or whose plan header is missing or not a recognized plan,
\* and which does not lead to the expiry retry, has its body read and ends in the
\* generic ApiError with status 403 and that response's body and headers: neither
\* ModelRequestLimitReached nor PaymentRequired.
C35_ForbiddenFallsThrough ==
    (FinalFailure /\ ForbiddenNotQuota(Final))
        => /\ pc \in {"read_body", "done"}
           /\ response = Final
           /\ pc = "done" =>
                 /\ ~perform_result.ok
                 /\ perform_result.error.kind \notin
                       {"ModelRequestLimitReachedError", "PaymentRequiredError"}
                 /\ perform_result \in {Err([kind |-> "ApiError", status |-> 403,
                                              body |-> Final.body,
                                              headers |-> Final.headers]),
                                         Err([kind |-> "IoError"])}

C35_Witness ==
    /\ FinalFailure
    /\ Received = 1
    /\ Final.status = 403
    /\ Final.headers.resource = "model_requests"
    /\ Final.headers.plan = "unknown"
    /\ pc = "done"
    /\ perform_result = Err([kind |-> "ApiError", status |-> 403, body |-> Final.body,
                              headers |-> Final.headers])

(***************************************************************************)
(* The event stream: response_lines chained with the two synthetic         *)
(* trailers, through map_cloud_completion_events.                          *)
(***************************************************************************)
MaxLines == 3

Payloads == {"text", "stop", "ping"}

\* A line of the body: a provider payload on its own, a payload or a status in the
\* CompletionEvent envelope, or text that is no JSON value
Lines ==
    [form : {"plain", "event"}, payload : Payloads]
      \cup [form : {"status"}, status : {[kind |-> "Queued"], [kind |-> "ToolUseLimitReached"]}]
      \cup {[form |-> "garbage"]}

Event(payload) == [variant |-> "Event", payload |-> payload]

Status(status) == [variant |-> "Status", status |-> status]

\* The parse as it would be if every line were parsed as a CompletionEvent,
\* whatever the mode
parse_line_AlwaysEnvelope(includes_status_messages, line) ==
    CASE line.form \in {"event", "plain"} -> Ok(Event(line.payload))
      [] line.form = "status" -> Ok(Status(line.status))
      [] OTHER -> Err([kind |-> "SerdeError"])

\* serde_json::from_str::<CompletionEvent<T>>(&line) when status messages are
\* included, else CompletionEvent::Event(serde_json::from_str::<T>(&line))
parse_line(includes_status_messages, line) ==
    IF includes_status_messages
    THEN CASE line.form = "event" -> Ok(Event(line.payload))
           [] line.form = "status" -> Ok(Status(line.status))
           [] OTHER -> Err([kind |-> "SerdeError"])
    ELSE IF line.form = "plain" THEN Ok(Event(line.payload))
         ELSE Err([kind |-> "SerdeError"])

\* usage_updated_event(usage): the items of futures::stream::iter(usage.map(..))
usage_updated_event(usage) ==
    IF usage.some
    THEN << Ok(Status([kind |-> "UsageUpdated", amount |-> usage.v.amount,
                       limit |-> usage.v.limit])) >>
    ELSE << >>

\* tool_use_limit_reached_event(flag): the items of
\* futures::stream::iter(flag.then(..))
tool_use_limit_reached_event(tool_use_limit_reached) ==
    IF tool_use_limit_reached THEN << Ok(Status([kind |-> "ToolUseLimitReached"])) >> ELSE << >>

\* The chain with the two trailers the other way round
ChainedStreams_TrailersSwapped ==
    <<"response_lines", "tool_use_limit_reached_event", "usage_updated_event">>

\* response_lines(..).chain(usage_updated_event(usage))
\*                   .chain(tool_use_limit_reached_event(tool_use_limit_reached))
ChainedStreams == <<"response_lines", "usage_updated_event", "tool_use_limit_reached_event">>

ChainEnd == Len(ChainedStreams) + 1

\* The items a stream of the chain yields without reading the body: response_lines,
\* once its state is gone, yields none
ItemsOf(name, c) ==
    CASE name = "usage_updated_event" -> usage_updated_event(c.usage)
      [] name = "tool_use_limit_reached_event" ->
            tool_use_limit_reached_event(c.tool_use_limit_reached)
      [] OTHER -> << >>

From(item, src) == [item |-> item, src |-> src]

\* Chain::poll_next from stream i on, no stream before i having an item left: the
\* first item found and the stream to poll next, or the end
RECURSIVE PollChain(_, _)
PollChain(i, c) ==
    IF i >= ChainEnd THEN [item |-> None, chain |-> ChainEnd]
    ELSE IF ItemsOf(ChainedStreams[i], c) # << >>
    THEN [item |-> Some(From(ItemsOf(ChainedStreams[i], c)[1], ChainedStreams[i])),
          chain |-> i + 1]
    ELSE PollChain(i + 1, c)

\* The event mapper's map_event: what one payload maps to, given the payloads seen
map_event(state, payload) ==
    CASE payload = "text" -> << Ok([kind |-> "Text", nth |-> Len(state) + 1]) >>
      [] payload = "stop" -> << Ok([kind |-> "Stop", nth |-> Len(state) + 1]),
                                Ok([kind |-> "UsageUpdate", nth |-> Len(state) + 1]) >>
      [] OTHER -> << >>

\* The closure as it would be if it handed on the mapper's results last first
MapItem_ReversesExpansion(state, item) ==
    IF ~item.ok THEN << Err(From_anyhow(item.error)) >>
    ELSE IF item.v.variant = "Status" THEN << Ok([kind |-> "StatusUpdate", status |-> item.v.status]) >>
    ELSE LET results == map_event(state, item.v.payload)
         IN  [i \in 1..Len(results) |-> results[Len(results) + 1 - i]]

\* The closure of flat_map in map_cloud_completion_events
MapItem(state, item) ==
    IF ~item.ok THEN << Err(From_anyhow(item.error)) >>
    ELSE IF item.v.variant = "Status" THEN << Ok([kind |-> "StatusUpdate", status |-> item.v.status]) >>
    ELSE map_event(state, item.v.payload)

MapperAfter(state, item) ==
    IF item.ok /\ item.v.variant = "Event" THEN Append(state, item.v.payload) ELSE state

\* The mapper as it would be if a stream went on with the mapper made before it
NewMapper_Continues(earlier) == earlier

\* let mut mapper = AnthropicEventMapper::new() (OpenAiEventMapper, GoogleEventMapper):
\* the mapper a stream_completion call makes, whatever mapper was made before it
NewMapper(earlier) == << >>

StreamInit ==
    /\ completion \in { PerformLlmCompletionResponse(r) : r \in SuccessResponses }
    /\ chain = 1
    /\ lines_done = FALSE
    /\ wire = <<>>
    /\ raw = <<>>
    /\ pending = <<>>
    /\ out = <<>>
    /\ mapper = NewMapper(<< >>)

\* The chained stream yields `it`: flat_map maps it
Yielded(it) ==
    /\ raw' = Append(raw, it)
    /\ pending' = MapItem(mapper, it.item)
    /\ mapper' = MapperAfter(mapper, it.item)

\* The chain is polled past response_lines, from stream i on
PollTrailers(i) ==
    LET p == PollChain(i, completion)
    IN  /\ chain' = p.chain
        /\ IF p.item.some THEN Yielded(p.item.v)
           ELSE UNCHANGED <<raw, pending, mapper>>

\* flat_map polls the chained stream, its inner stream being exhausted.  While
\* response_lines has its state, one line is read: a parsed event, a parse error, a
\* read error, or the end (Ok(0)), after which the poll goes on to the trailers.
\* Once response_lines has returned an error its state is gone: it ends, and the
\* poll goes on to the trailers.
PollStream ==
    /\ completion # NoCompletion
    /\ pending = <<>>
    /\ chain < ChainEnd
    /\ IF ChainedStreams[chain] = "response_lines" /\ ~lines_done
       THEN \/ \E line \in Lines :
                 /\ Len(wire) < MaxLines
                 /\ wire' = Append(wire, line)
                 /\ Yielded(From(parse_line(completion.includes_status_messages, line),
                                 "response_lines"))
                 /\ lines_done' = ~parse_line(completion.includes_status_messages, line).ok
                 /\ UNCHANGED chain
            \/ /\ Yielded(From(Err([kind |-> "IoError"]), "response_lines"))
               /\ lines_done' = TRUE
               /\ UNCHANGED <<wire, chain>>
            \/ /\ lines_done' = TRUE
               /\ PollTrailers(chain + 1)
               /\ UNCHANGED wire
       ELSE /\ PollTrailers(IF ChainedStreams[chain] = "response_lines" THEN chain + 1 ELSE chain)
            /\ UNCHANGED <<wire, lines_done>>
    /\ UNCHANGED <<concurrentVars, completion, out, classifyVars, callVars, limiterVars>>

\* The caller polls the event stream and flat_map's inner stream has an item
YieldEvent ==
    /\ pending # <<>>
    /\ out' = Append(out, Head(pending))
    /\ pending' = Tail(pending)
    /\ UNCHANGED <<concurrentVars, completion, chain, lines_done, wire, raw, mapper, classifyVars, callVars,
                   limiterVars>>

NextStream == PollStream \/ YieldEvent

InitStream == ClassifyIdle /\ CallIdle /\ StreamInit /\ LimiterIdle /\ ConcurrentIdle

SpecStream == InitStream /\ [][NextStream]_vars

(***************************************************************************)
(* Two stream_completion calls have built their event streams and their    *)
(* callers poll them in any order: the stream variables are those of the   *)
(* stream polled now, other_stream holds the other one.                    *)
(***************************************************************************)
\* The responses the two streams are built from: with and without status
\* messages, with and without usage headers
StreamsCompletions ==
    { PerformLlmCompletionResponse(r) :
        r \in { x \in SuccessResponses :
                  ~x.headers.tool_use_limit /\ x.headers.usage # "invalid" } }

\* The stream polled now, as it is held while the other one is polled
ThisStream ==
    [started |-> TRUE, completion |-> completion, chain |-> chain,
     lines_done |-> lines_done, wire |-> wire, raw |-> raw, pending |-> pending,
     out |-> out, mapper |-> mapper]

\* The lines the other stream has read
OtherWire == IF other_stream.started THEN other_stream.wire ELSE << >>

\* A later stream_completion call resolves with its stream, built with its own
\* mapper, while the first stream is still held by its caller
StreamCompletionAgain ==
    /\ ~other_stream.started
    /\ other_stream' = ThisStream
    /\ completion' \in StreamsCompletions
    /\ chain' = 1
    /\ lines_done' = FALSE
    /\ wire' = << >>
    /\ raw' = << >>
    /\ pending' = << >>
    /\ out' = << >>
    /\ mapper' = NewMapper(mapper)
    /\ UNCHANGED <<calls, classifyVars, callVars, limiterVars>>

\* The caller of the other stream polls next
SwitchStream ==
    /\ other_stream.started
    /\ other_stream' = ThisStream
    /\ completion' = other_stream.completion
    /\ chain' = other_stream.chain
    /\ lines_done' = other_stream.lines_done
    /\ wire' = other_stream.wire
    /\ raw' = other_stream.raw
    /\ pending' = other_stream.pending
    /\ out' = other_stream.out
    /\ mapper' = other_stream.mapper
    /\ UNCHANGED <<calls, classifyVars, callVars, limiterVars>>

\* Both bodies together have at most MaxLines lines
NextStreams ==
    /\ PollStream \/ YieldEvent \/ StreamCompletionAgain \/ SwitchStream
    /\ Len(wire') + Len(OtherWire') <= MaxLines

InitStreams ==
    /\ ClassifyIdle
    /\ CallIdle
    /\ StreamInit
    /\ completion \in StreamsCompletions
    /\ LimiterIdle
    /\ ConcurrentIdle

SpecStreams == InitStreams /\ [][NextStreams]_vars

(***************************************************************************)
(* Claims about the event stream (checked under SpecStream).               *)
(***************************************************************************)
\* The positions of raw whose item came from stream `name` of the chain
FromStream(name) == { i \in 1..Len(raw) : raw[i].src = name }

DecodeErrors == { i \in 1..Len(raw) : ~raw[i].item.ok }

\* The chained stream has ended
ChainEnded == chain = ChainEnd

\* C4: when a line fails to parse, or a read fails, the error the decoder yields is
\* the last item: no later wire line and no synthetic UsageUpdated or
\* ToolUseLimitReached trailer follows it, in the chained stream or in the event
\* stream handed to the caller.
C4_DecodeErrorIsLast ==
    /\ \A i \in DecodeErrors : i = Len(raw)
    /\ \A i \in 1..Len(out) :
          (~out[i].ok /\ out[i].error.kind = "Other") => i = Len(out) /\ pending = <<>>

\* C5: the chained stream yields the decoded wire lines in wire order, then at most
\* one UsageUpdated trailer, then at most one ToolUseLimitReached trailer, each
\* trailer only once response_lines is over; and with N well-formed lines, the end
\* of the body, usage captured and the tool-use-limit flag set, the stream is
\* exactly the N events, one UsageUpdated and one ToolUseLimitReached.
C5_LinesThenTrailers ==
    /\ Cardinality(FromStream("usage_updated_event")) <= 1
    /\ Cardinality(FromStream("tool_use_limit_reached_event")) <= 1
    /\ \A i \in FromStream("response_lines") :
          /\ \A j \in 1..i : j \in FromStream("response_lines")
          /\ i <= Len(wire) => raw[i].item = parse_line(completion.includes_status_messages, wire[i])
    /\ \A i \in FromStream("usage_updated_event") :
          /\ lines_done
          /\ completion.usage.some
          /\ raw[i].item = Ok(Status([kind |-> "UsageUpdated",
                                      amount |-> completion.usage.v.amount,
                                      limit |-> completion.usage.v.limit]))
          /\ \A j \in FromStream("tool_use_limit_reached_event") : i < j
    /\ \A i \in FromStream("tool_use_limit_reached_event") :
          /\ lines_done
          /\ completion.tool_use_limit_reached
          /\ raw[i].item = Ok(Status([kind |-> "ToolUseLimitReached"]))
    /\ (ChainEnded /\ DecodeErrors = {} /\ completion.usage.some
          /\ completion.tool_use_limit_reached) =>
          /\ Len(raw) = Len(wire) + 2
          /\ \A i \in 1..Len(wire) :
                raw[i] = From(Ok(Event(wire[i].payload)), "response_lines")
          /\ raw[Len(wire) + 1].src = "usage_updated_event"
          /\ raw[Len(wire) + 2].src = "tool_use_limit_reached_event"

C5_Witness ==
    /\ ChainEnded
    /\ DecodeErrors = {}
    /\ completion.usage.some
    /\ completion.tool_use_limit_reached
    /\ Len(wire) = 2
    /\ Len(raw) = 4
    /\ raw[3].item.v.status.kind = "UsageUpdated"
    /\ raw[4].item.v.status.kind = "ToolUseLimitReached"

\* C16: when the success response carries the server-supports-status-messages
\* header the result's usage is None whatever the usage headers say, and no
\* UsageUpdated trailer is yielded for that stream; when the header is absent the
\* usage is what the usage headers parse to (None when they are missing or do not
\* parse), and a parsed usage is yielded as the one UsageUpdated trailer.
C16_StatusModeSuppressesHeaderUsage ==
    /\ completion.includes_status_messages = completion.response.headers.status_messages
    /\ completion.response.headers.status_messages =>
          /\ completion.usage = None
          /\ FromStream("usage_updated_event") = {}
          /\ \A i \in 1..Len(raw) :
                (raw[i].item.ok /\ raw[i].item.v.variant = "Status")
                   => raw[i].item.v.status.kind # "UsageUpdated"
    /\ ~completion.response.headers.status_messages =>
          /\ completion.usage =
                IF completion.response.headers.usage = "valid"
                THEN Some([amount |-> 7, limit |-> 50]) ELSE None
          /\ (ChainEnded /\ completion.response.headers.usage = "valid")
                => Cardinality(FromStream("usage_updated_event")) = 1

C16_Witness ==
    /\ completion.response.headers.status_messages
    /\ completion.response.headers.usage = "valid"
    /\ completion.usage = None
    /\ ChainEnded
    /\ Len(wire) = 2
    /\ DecodeErrors = {}
    /\ FromStream("usage_updated_event") = {}

\* The payloads of the Event items among the first n items of the chained stream
EventsBefore(n) ==
    LET events == SelectSeq(SubSeq(raw, 1, n),
                            LAMBDA x : x.item.ok /\ x.item.v.variant = "Event")
    IN  [i \in 1..Len(events) |-> events[i].item.v.payload]

\* What the n-th item of the chained stream maps to: an error to that one error, a
\* Status to one StatusUpdate, an Event payload to the mapper's results
OutputOf(n) ==
    IF ~raw[n].item.ok THEN << Err([kind |-> "Other", error |-> raw[n].item.error]) >>
    ELSE IF raw[n].item.v.variant = "Status"
    THEN << Ok([kind |-> "StatusUpdate", status |-> raw[n].item.v.status]) >>
    ELSE map_event(EventsBefore(n - 1), raw[n].item.v.payload)

RECURSIVE OutputUpTo(_)
OutputUpTo(n) == IF n = 0 THEN << >> ELSE OutputUpTo(n - 1) \o OutputOf(n)

\* C17: what map_cloud_completion_events has yielded, followed by what it holds of
\* the item it is expanding, is the concatenation, in input order, of the outputs
\* of the input items read so far: one error for an error, one StatusUpdate for a
\* Status, the mapper's results in the mapper's order for an Event payload.
C17_OutputOrderIsInputOrder ==
    /\ out \o pending = OutputUpTo(Len(raw))
    /\ \A n \in 1..Len(raw) :
          (raw[n].item.ok /\ raw[n].item.v.variant = "Status") => Len(OutputOf(n)) = 1

C17_Witness ==
    /\ Len(raw) = 3
    /\ raw[1].item = Ok(Event("stop"))
    /\ raw[2].item = Ok(Status([kind |-> "Queued"]))
    /\ ~raw[3].item.ok
    /\ pending = << >>
    /\ Len(out) = 4
    /\ out[1].v.kind = "Stop"
    /\ out[2].v.kind = "UsageUpdate"
    /\ out[3].v.kind = "StatusUpdate"
    /\ ~out[4].ok

\* The items response_lines has yielded are the first of raw, in wire order
LineItems == FromStream("response_lines")

\* Every item of response_lines that came from a line is that line's parse in the
\* mode of the response; in plain mode none of them is a Status
C29_ModeAppliesToEveryLine ==
    /\ Len(wire) <= Cardinality(LineItems)
    /\ \A i \in 1..Len(wire) :
          /\ i \in LineItems
          /\ IF completion.includes_status_messages
             THEN /\ wire[i].form = "event" => raw[i].item = Ok(Event(wire[i].payload))
                  /\ wire[i].form = "status" => raw[i].item = Ok(Status(wire[i].status))
                  /\ wire[i].form \notin {"event", "status"} => ~raw[i].item.ok
             ELSE /\ wire[i].form = "plain" => raw[i].item = Ok(Event(wire[i].payload))
                  /\ wire[i].form # "plain" => ~raw[i].item.ok
    /\ ~completion.includes_status_messages =>
          \A i \in LineItems : raw[i].item.ok => raw[i].item.v.variant = "Event"

\* response_lines ends without an error only on a read that returns no line; a
\* line that parses never ends it, and the mode never changes
C29_EndStep ==
    /\ completion' = completion
    /\ (lines_done' /\ ~lines_done) =>
          \/ /\ wire' = wire
             /\ LineItems' = LineItems
          \/ /\ LineItems' = LineItems \cup {Len(raw')}
             /\ Len(raw') = Len(raw) + 1
             /\ ~raw'[Len(raw')].item.ok
    /\ (wire' # wire /\ raw'[Len(raw')].item.ok) => ~lines_done'
    /\ lines_done => wire' = wire /\ LineItems' = LineItems

\* C29: the decode mode is that of the response (the status-messages header) and
\* applies to every line: in status-message mode a line is parsed as a
\* CompletionEvent (Status or Event), in plain mode as the provider payload, wrapped
\* as Event, so in plain mode response_lines yields no Status; and response_lines
\* ends without an error exactly on the read that returns zero bytes.
C29_DecodeModeIsFixed ==
    /\ []C29_ModeAppliesToEveryLine
    /\ [][C29_EndStep]_vars

C29_Witness ==
    /\ ~completion.includes_status_messages
    /\ Len(wire) = 2
    /\ wire[1].form = "plain"
    /\ raw[1].item = Ok(Event(wire[1].payload))
    /\ wire[2].form = "status"
    /\ ~raw[2].item.ok
    /\ lines_done

\* The payloads of the Event items among the items r of a chained stream, in order
EventPayloads(r) ==
    LET events == SelectSeq(r, LAMBDA x : x.item.ok /\ x.item.v.variant = "Event")
    IN  [i \in 1..Len(events) |-> events[i].item.v.payload]

\* The mapper state m and the outputs o of a stream come from the items r of that
\* stream alone: the mapper has been fed exactly that stream's payloads, in order,
\* and every mapped event is numbered within them
OwnMapper(m, r, o) ==
    /\ m = EventPayloads(r)
    /\ \A i \in 1..Len(o) :
          (o[i].ok /\ "nth" \in DOMAIN o[i].v) => o[i].v.nth \in 1..Len(m)

\* C28: each stream_completion call's stream has a mapper of its own, new when the
\* stream is built and fed the payloads of that stream only, one after the other:
\* with two streams polled in any order, and the second built after the first has
\* been read from, neither mapper holds or numbers anything of the other stream.
C28_MapperIsPerStream ==
    /\ OwnMapper(mapper, raw, out \o pending)
    /\ other_stream.started =>
          OwnMapper(other_stream.mapper, other_stream.raw,
                    other_stream.out \o other_stream.pending)

C28_Witness ==
    /\ other_stream.started
    /\ Len(other_stream.mapper) = 2
    /\ Len(mapper) = 1
    /\ Len(out) = 1
    /\ out[1].ok
    /\ out[1].v = [kind |-> "Text", nth |-> 1]
    /\ Len(other_stream.out) >= 2

\* The response has no status messages and no usage headers that parse
PlainWithoutUsage(r) ==
    /\ is_success(r.status)
    /\ ~r.headers.status_messages
    /\ r.headers.usage \in {"absent", "invalid"}

\* The StatusUpdate events of kind k among the events e
StatusUpdates(e, k) ==
    { i \in 1..Len(e) : e[i].ok /\ e[i].v.kind = "StatusUpdate" /\ e[i].v.status.kind = k }

\* C36: for a success response without status messages whose usage headers are
\* missing or do not parse, perform_llm_completion returns success with usage None
\* and the call resolves with the stream, and that stream has no UsageUpdated
\* trailer: the chain goes from the lines to the tool-use-limit trailer, and no
\* UsageUpdated event reaches the caller.
C36_MissingUsageIsNoError ==
    /\ (Received >= 1 /\ PlainWithoutUsage(Final)) =>
          /\ pc = "done"
          /\ perform_result.ok
          /\ perform_result.v.usage = None
          /\ result.ok
          /\ result.v.usage = None
    /\ (completion # NoCompletion /\ PlainWithoutUsage(completion.response)) =>
          /\ completion.usage = None
          /\ FromStream("usage_updated_event") = {}
          /\ StatusUpdates(out \o pending, "UsageUpdated") = {}
          /\ ChainEnded =>
                Len(raw) = Cardinality(FromStream("response_lines"))
                             + (IF completion.tool_use_limit_reached THEN 1 ELSE 0)

C36_Witness ==
    /\ completion # NoCompletion
    /\ PlainWithoutUsage(completion.response)
    /\ completion.response.headers.usage = "invalid"
    /\ completion.tool_use_limit_reached
    /\ ChainEnded
    /\ pending = << >>
    /\ Len(wire) = 2
    /\ DecodeErrors = {}
    /\ Len(raw) = 3
    /\ raw[3].src = "tool_use_limit_reached_event"

\* The lines read that are a ToolUseLimitReached status
InBandToolLimit ==
    { i \in 1..Len(wire) : wire[i].form = "status" /\ wire[i].status.kind = "ToolUseLimitReached" }

\* C37: the ToolUseLimitReached trailer is in the stream if and only if the success
\* response had the tool-use-limit-reached header, in both decode modes: it is not
\* left out in status-message mode, so a stream whose lines hold a
\* ToolUseLimitReached status hands the caller that status once per such line and
\* once more for the trailer.
C37_ToolLimitTrailerInBothModes ==
    /\ completion.tool_use_limit_reached = completion.response.headers.tool_use_limit
    /\ FromStream("tool_use_limit_reached_event") # {} => completion.tool_use_limit_reached
    /\ ChainEnded =>
          Cardinality(FromStream("tool_use_limit_reached_event"))
             = IF completion.response.headers.tool_use_limit THEN 1 ELSE 0
    /\ (ChainEnded /\ pending = << >> /\ completion.includes_status_messages) =>
          Cardinality(StatusUpdates(out, "ToolUseLimitReached"))
             = Cardinality(InBandToolLimit)
                 + (IF completion.response.headers.tool_use_limit THEN 1 ELSE 0)

C37_Witness ==
    /\ completion.includes_status_messages
    /\ completion.response.headers.tool_use_limit
    /\ ChainEnded
    /\ pending = << >>
    /\ Cardinality(InBandToolLimit) = 1
    /\ DecodeErrors = {}
    /\ Cardinality(StatusUpdates(out, "ToolUseLimitReached")) = 2

(***************************************************************************)
(* The request limiter: every model object create_language_model makes     *)
(* has a request_limiter of its own; stream_completion hands its operation *)
(* to self.request_limiter.stream, which admits at most RequestLimit       *)
(* operations at a time, first come first, and frees the slot when the     *)
(* operation's future resolves.  Callers are numbered in the order in      *)
(* which they call.                                                        *)
(***************************************************************************)
MaxModelObjects == 2

\* The slot as it would be if it were held until the stream is drained
ReleasePoint_Drained == "drained"

\* When an admitted operation's slot is released: when its future resolves
ReleasePoint == "resolved"

\* The model objects created so far
ModelObjects == 1..Len(permits)

\* The callers of model object m
On(m) == { c \in Callers : limiter_of[c] = m }

InFlight == { c \in Callers : op[c] = "admitted" }

Resolved == { c \in Callers : op[c] \in {"failed", "streaming", "partly_drained", "drained"} }

EverAdmitted == InFlight \cup Resolved

\* default_model, default_fast_model, recommended_models, provided_models: each
\* model object handed out is made by create_language_model, with
\* request_limiter: RateLimiter::new(4)
CreateLanguageModel ==
    /\ Len(permits) < MaxModelObjects
    /\ permits' = Append(permits, RequestLimit)
    /\ queue' = Append(queue, << >>)
    /\ UNCHANGED <<concurrentVars, op, limiter_of, waited, classifyVars, callVars, streamVars>>

\* The call as it would be if the limiter turned it down when no slot is free
CallStream_RejectsWhenFull(c, m) ==
    /\ op[c] = "idle"
    /\ \A d \in 1..(c - 1) : op[d] # "idle"
    /\ op' = [op EXCEPT ![c] = IF permits[m] = 0 THEN "failed" ELSE "waiting"]
    /\ limiter_of' = [limiter_of EXCEPT ![c] = m]
    /\ queue' = [queue EXCEPT ![m] = IF permits[m] = 0 THEN @ ELSE Append(@, c)]
    /\ waited' = IF permits[m] = 0 THEN waited \cup {c} ELSE waited
    /\ UNCHANGED <<concurrentVars, permits, classifyVars, callVars, streamVars>>

\* stream_completion on model object m: self.request_limiter.stream(async move { .. })
\* joins the queue of m's limiter
CallStream(c, m) ==
    /\ op[c] = "idle"
    /\ \A d \in 1..(c - 1) : op[d] # "idle"
    /\ op' = [op EXCEPT ![c] = "waiting"]
    /\ limiter_of' = [limiter_of EXCEPT ![c] = m]
    /\ queue' = [queue EXCEPT ![m] = Append(queue[m], c)]
    /\ waited' = IF permits[m] = 0 THEN waited \cup {c} ELSE waited
    /\ UNCHANGED <<concurrentVars, permits, classifyVars, callVars, streamVars>>

\* The limiter as it would be if it admitted the operation that came last
Admit_LastWaiting(c) ==
    /\ op[c] = "waiting"
    /\ queue[limiter_of[c]][Len(queue[limiter_of[c]])] = c
    /\ permits[limiter_of[c]] > 0
    /\ permits' = [permits EXCEPT ![limiter_of[c]] = @ - 1]
    /\ queue' = [queue EXCEPT ![limiter_of[c]] = SubSeq(@, 1, Len(@) - 1)]
    /\ op' = [op EXCEPT ![c] = "admitted"]
    /\ UNCHANGED <<concurrentVars, limiter_of, waited, classifyVars, callVars, streamVars>>

\* The limiter admits the first waiting operation: its async block starts
Admit(c) ==
    /\ op[c] = "waiting"
    /\ Head(queue[limiter_of[c]]) = c
    /\ permits[limiter_of[c]] > 0
    /\ permits' = [permits EXCEPT ![limiter_of[c]] = @ - 1]
    /\ queue' = [queue EXCEPT ![limiter_of[c]] = Tail(@)]
    /\ op' = [op EXCEPT ![c] = "admitted"]
    /\ UNCHANGED <<concurrentVars, limiter_of, waited, classifyVars, callVars, streamVars>>

\* The future resolves, and a failed operation keeps its slot
OperationResolves_FailureKeepsSlot(c) ==
    /\ op[c] = "admitted"
    /\ \E outcome \in {"streaming", "failed"} :
          /\ op' = [op EXCEPT ![c] = outcome]
          /\ permits' = IF outcome = "streaming"
                        THEN [permits EXCEPT ![limiter_of[c]] = @ + 1] ELSE permits
    /\ UNCHANGED <<concurrentVars, queue, limiter_of, waited, classifyVars, callVars, streamVars>>

\* The admitted operation's future resolves: with the event stream, which the caller
\* now holds, or with an error
OperationResolves(c) ==
    /\ op[c] = "admitted"
    /\ \E outcome \in {"streaming", "failed"} :
          /\ op' = [op EXCEPT ![c] = outcome]
          /\ permits' = IF ReleasePoint = "resolved" \/ outcome = "failed"
                        THEN [permits EXCEPT ![limiter_of[c]] = @ + 1] ELSE permits
    /\ UNCHANGED <<concurrentVars, queue, limiter_of, waited, classifyVars, callVars, streamVars>>

\* The caller reads some of its event stream
PollEvents(c) ==
    /\ op[c] = "streaming"
    /\ op' = [op EXCEPT ![c] = "partly_drained"]
    /\ UNCHANGED <<concurrentVars, permits, queue, limiter_of, waited, classifyVars, callVars, streamVars>>

\* The caller reads its event stream to the end
DrainEvents(c) ==
    /\ op[c] \in {"streaming", "partly_drained"}
    /\ op' = [op EXCEPT ![c] = "drained"]
    /\ permits' = IF ReleasePoint = "resolved" THEN permits
                  ELSE [permits EXCEPT ![limiter_of[c]] = @ + 1]
    /\ UNCHANGED <<concurrentVars, queue, limiter_of, waited, classifyVars, callVars, streamVars>>

\* A step of caller c's call
CallerStep(c) ==
    \/ \E m \in ModelObjects : CallStream(c, m)
    \/ Admit(c)
    \/ OperationResolves(c)
    \/ PollEvents(c)
    \/ DrainEvents(c)

\* Calls on one model object
NextLimiter == \E c \in Callers : CallerStep(c)

InitLimiter == ClassifyIdle /\ CallIdle /\ StreamIdle /\ LimiterIdle /\ ConcurrentIdle

SpecLimiter == InitLimiter /\ [][NextLimiter]_vars

\* How many callers more than the limiter has slots call in the scenario with
\* fair scheduling
MaxWaiting == 1

AdmissionCallers == 1..(RequestLimit + MaxWaiting)

NextAdmission == \E c \in AdmissionCallers : CallerStep(c)

InitAdmission == ClassifyIdle /\ CallIdle /\ StreamIdle /\ LimiterIdle /\ ConcurrentIdle

\* Calls on one model object where the limiter hands a free slot to the first
\* waiting operation and every admitted operation's future resolves
SpecAdmission ==
    /\ InitAdmission
    /\ [][NextAdmission]_vars
    /\ \A c \in AdmissionCallers : WF_vars(Admit(c)) /\ WF_vars(OperationResolves(c))

\* The callers of the scenario with several model objects: one more than a limiter
\* has slots
ProviderCallers == 1..(RequestLimit + 1)

\* Calls on the model objects the provider hands out over one client
NextProvider == CreateLanguageModel \/ \E c \in ProviderCallers : CallerStep(c)

InitProvider == ClassifyIdle /\ CallIdle /\ StreamIdle /\ LimiterIdle /\ ConcurrentIdle

SpecProvider == InitProvider /\ [][NextProvider]_vars

(***************************************************************************)
(* One caller is followed from its call to its event stream, and may drop  *)
(* what it holds at any point: the future of stream_completion while the   *)
(* operation waits or runs, the event stream afterwards.  The other        *)
(* callers hold the limiter's slots when it calls.                         *)
(***************************************************************************)
Followed == RequestLimit + 1

\* The caller still holds a slot of its limiter
HoldsSlot(c) ==
    \/ op[c] = "admitted"
    \/ op[c] \in {"streaming", "partly_drained"} /\ ReleasePoint # "resolved"

\* Dropping a waiting operation takes it out of the queue
Unqueued(q, c) == SelectSeq(q, LAMBDA d : d # c)

\* What dropping leaves of the free slots if the slot were kept
Released_KeepsSlot(free, held) == free

\* Dropping an operation that holds a slot frees it
Released(free, held) == IF held THEN free + 1 ELSE free

\* The caller drops what it holds: a waiting operation leaves the queue, a running
\* one is cancelled and its slot freed, an event stream is dropped with its body
\* and with what flat_map holds of the item it is expanding
Drop(c) ==
    /\ op[c] \in {"waiting", "admitted", "streaming"}
    /\ op' = [op EXCEPT ![c] = "dropped"]
    /\ queue' = [queue EXCEPT ![limiter_of[c]] = Unqueued(@, c)]
    /\ permits' = [permits EXCEPT ![limiter_of[c]] = Released(@, HoldsSlot(c))]
    /\ pending' = IF op[c] = "streaming" THEN << >> ELSE pending
    /\ UNCHANGED <<limiter_of, waited, completion, chain, lines_done, wire, raw, out, mapper,
                   classifyVars, callVars, concurrentVars>>

\* The response the followed call gets when it succeeds: without status messages,
\* with usage headers
CancelCompletions ==
    { PerformLlmCompletionResponse(r) :
        r \in { x \in SuccessResponses :
                  /\ ~x.headers.status_messages
                  /\ ~x.headers.tool_use_limit
                  /\ x.headers.usage = "valid" } }

\* The followed operation's future resolves: with an error, or with the event stream
\* built from the response it got
FollowedResolves ==
    /\ op[Followed] = "admitted"
    /\ \/ /\ op' = [op EXCEPT ![Followed] = "failed"]
          /\ permits' = [permits EXCEPT ![limiter_of[Followed]] = @ + 1]
          /\ UNCHANGED completion
       \/ /\ op' = [op EXCEPT ![Followed] = "streaming"]
          /\ permits' = IF ReleasePoint = "resolved"
                        THEN [permits EXCEPT ![limiter_of[Followed]] = @ + 1] ELSE permits
          /\ completion' \in CancelCompletions
    /\ UNCHANGED <<queue, limiter_of, waited, chain, lines_done, wire, raw, pending, out, mapper,
                   classifyVars, callVars, concurrentVars>>

NextCancel ==
    \/ \E c \in 1..RequestLimit : OperationResolves(c)
    \/ CallStream(Followed, 1)
    \/ Admit(Followed)
    \/ FollowedResolves
    \/ op[Followed] = "streaming" /\ PollStream
    \/ op[Followed] = "streaming" /\ YieldEvent
    \/ Drop(Followed)

\* RequestLimit callers have called and hold the slots; the followed caller has not
\* called yet
InitCancel ==
    /\ ClassifyIdle
    /\ CallIdle
    /\ StreamIdle
    /\ ConcurrentIdle
    /\ permits = << 0 >>
    /\ queue = << << >> >>
    /\ op = [c \in Callers |-> IF c <= RequestLimit THEN "admitted" ELSE "idle"]
    /\ limiter_of = [c \in Callers |-> IF c <= RequestLimit THEN 1 ELSE 0]
    /\ waited = {}

SpecCancel == InitCancel /\ [][NextCancel]_vars

(***************************************************************************)
(* One call followed through the limiter (SpecDispatch): stream_completion  *)
(* either returns at once or hands its async block to the limiter, which    *)
(* runs it once a slot is free. The other callers either hold every slot or *)
(* have not called.                                                         *)
(***************************************************************************)
Dispatched == 1

\* The callers whose operations may hold the slots when the call is made
SlotHolders == 2..(RequestLimit + 1)

\* The slot holder whose operation resolves while the call is followed
FirstHolder == RequestLimit + 1

\* self.request_limiter.stream(async move { .. }): the operation queues for a slot
EnterLimiter ==
    /\ pc = "start"
    /\ CallStream(Dispatched, 1)

\* The async block runs only once the limiter has admitted it
RunAdmitted ==
    /\ op[Dispatched] = "admitted"
    /\ PerformStep

\* The async block has ended: the operation's future resolves with its result
DispatchedResolves ==
    /\ pc = "done"
    /\ op[Dispatched] = "admitted"
    /\ LET streams == result # Panic /\ result.ok
       IN  /\ op' = [op EXCEPT ![Dispatched] = IF streams THEN "streaming" ELSE "failed"]
           /\ permits' = IF ReleasePoint = "resolved" \/ ~streams
                         THEN [permits EXCEPT ![limiter_of[Dispatched]] = @ + 1]
                         ELSE permits
    /\ UNCHANGED <<concurrentVars, queue, limiter_of, waited, classifyVars, callVars, streamVars>>

NextDispatch ==
    \/ StreamCompletion
    \/ EnterLimiter
    \/ Admit(Dispatched)
    \/ RunAdmitted
    \/ DispatchedResolves
    \/ OperationResolves(FirstHolder)

\* The call has not been made; the limiter is idle, or full of other callers'
\* operations
InitDispatch ==
    /\ ClassifyIdle
    /\ CallInit
    /\ StreamIdle
    /\ ConcurrentIdle
    /\ queue = << << >> >>
    /\ waited = {}
    /\ \E full \in BOOLEAN :
          /\ permits = << IF full THEN 0 ELSE RequestLimit >>
          /\ op = [c \in Callers |-> IF full /\ c \in SlotHolders THEN "admitted" ELSE "idle"]
          /\ limiter_of = [c \in Callers |-> IF full /\ c \in SlotHolders THEN 1 ELSE 0]

SpecDispatch == InitDispatch /\ [][NextDispatch]_vars

(***************************************************************************)
(* Claims about the limiter (checked under SpecLimiter and SpecProvider).  *)
(***************************************************************************)
\* C2: with K > N (4) concurrent calls on one limiter, at most N operations are
\* admitted and not yet resolved at any moment, and an operation beyond the first N
\* is admitted only after an earlier one has resolved: the operations ever admitted
\* are never more than N plus those that have resolved.
C2_AtMostFourInFlight ==
    \A m \in ModelObjects :
        /\ Cardinality(InFlight \cap On(m)) <= 4
        /\ Cardinality(EverAdmitted \cap On(m)) <= 4 + Cardinality(Resolved \cap On(m))
        /\ permits[m] >= 0
        /\ \A i \in 1..Len(queue[m]) : op[queue[m][i]] = "waiting"

C2_Witness ==
    /\ Cardinality(InFlight \cap On(1)) = 4
    /\ Cardinality(EverAdmitted \cap On(1)) > 4
    /\ queue[1] = <<>>

\* C3: the slot is released when the operation's future resolves, not when the
\* event stream is drained: the slots taken are exactly those of the operations
\* admitted and not yet resolved, so callers holding undrained or partly drained
\* streams hold none, and with N such callers a further operation can be admitted.
C3_SlotFreedOnResolve ==
    \A m \in ModelObjects :
        /\ permits[m] = 4 - Cardinality(InFlight \cap On(m))
        /\ (queue[m] # <<>> /\ Cardinality(InFlight \cap On(m)) < 4)
              => ENABLED Admit(Head(queue[m]))

C3_Witness ==
    /\ Cardinality({ c \in On(1) : op[c] \in {"streaming", "partly_drained"} }) = 4
    /\ \E c \in Callers : op[c] = "partly_drained"
    /\ Cardinality(InFlight \cap On(1)) = 1

\* C19: over all the model objects the provider hands out on one client, at most N
\* (4) completion requests are in flight at once.
C19_AtMostFourInFlightPerClient == Cardinality(InFlight) <= 4

\* Caller c called before caller d, on the same limiter, both while no slot was free
WaitedBefore(c, d) ==
    /\ c < d
    /\ limiter_of[c] = limiter_of[d]
    /\ c \in waited
    /\ d \in waited

\* C20: operations that call the limiter's stream while all N slots are taken are
\* admitted first come first: an operation that started waiting earlier is never
\* still waiting when one that started waiting later has been admitted.
C20_FifoAdmission ==
    \A c, d \in Callers :
        (WaitedBefore(c, d) /\ d \in EverAdmitted) => c \in EverAdmitted

C20_Witness ==
    \E c, d \in Callers :
        /\ WaitedBefore(c, d)
        /\ c \in EverAdmitted
        /\ op[d] = "waiting"
        /\ Cardinality(InFlight) = 4

\* A call is not turned down by the limiter: an operation fails only once it has
\* been admitted, with the error of its own future
C21_FailsOnlyWhenAdmitted ==
    \A c \in Callers :
        /\ (op'[c] = "failed" /\ op[c] # "failed") => op[c] = "admitted"
        /\ op[c] = "idle" => op'[c] \in {"idle", "waiting"}
        /\ op[c] = "waiting" => op'[c] \in {"waiting", "admitted"}

\* C21: the limiter never makes a call fail because all slots are taken, it only
\* makes it wait; and, every admitted operation's future resolving, every waiting
\* operation is admitted in the end.
C21_AdmissionOnlyDelays ==
    /\ [][C21_FailsOnlyWhenAdmitted]_vars
    /\ \A c \in AdmissionCallers : (op[c] = "waiting") ~> (c \in EverAdmitted)

C21_Witness ==
    \E c \in waited :
        /\ op[c] = "streaming"
        /\ \A d \in AdmissionCallers : op[d] \notin {"idle", "waiting"}
        /\ queue[1] = << >>

\* The followed caller has dropped what it held
Dropped == op[Followed] = "dropped"

\* Once dropped, the operation is not in the queue, holds no slot, and nothing is
\* held of an item being expanded
C22_NothingHeldAfterDrop ==
    Dropped =>
        /\ \A i \in 1..Len(queue[1]) : queue[1][i] # Followed
        /\ permits[1] = RequestLimit - Cardinality(InFlight)
        /\ Followed \notin InFlight
        /\ pending = << >>

\* The drop itself reads nothing and yields nothing, and frees the slot if one is
\* held; after it nothing is read from the body and no event is produced
C22_DropStep ==
    /\ (Dropped' /\ ~Dropped) =>
          /\ wire' = wire /\ raw' = raw /\ out' = out /\ mapper' = mapper
          /\ permits'[1] = IF op[Followed] = "admitted" THEN permits[1] + 1 ELSE permits[1]
    /\ Dropped =>
          /\ Dropped'
          /\ wire' = wire /\ raw' = raw /\ out' = out /\ pending' = pending
          /\ mapper' = mapper /\ lines_done' = lines_done /\ chain' = chain

\* C22: when the caller drops what it holds of a stream_completion call, while the
\* operation waits, while it runs or with the event stream part-read, nothing more
\* is read from the response body, the limiter's slot is freed if the operation
\* held it, the operation no longer waits in the queue, and no event is produced or
\* kept after the drop.
C22_DropStopsEverything ==
    /\ []C22_NothingHeldAfterDrop
    /\ [][C22_DropStep]_vars

C22_Witness ==
    /\ Dropped
    /\ Followed \in waited
    /\ Len(wire) = 2
    /\ Len(out) = 1
    /\ ~lines_done
    /\ permits[1] >= 1

\* C38: an admitted operation that fails gives its slot back and fails for its
\* caller only: the step on which it fails frees one slot of its limiter and
\* changes no other caller's operation and no queue, the operations that
\* failed hold no slot, so whatever the number of failures the free slots and
\* the operations in flight add up to N, and a waiting operation is admitted
\* as soon as fewer than N are in flight.
Failed == { c \in Callers : op[c] = "failed" }

C38_FailureStep ==
    \A c \in Callers :
        (op[c] = "admitted" /\ op'[c] = "failed")
            => /\ permits' = [permits EXCEPT ![limiter_of[c]] = @ + 1]
               /\ \A d \in Callers \ {c} : op'[d] = op[d]
               /\ queue' = queue

C38_NoSlotLeaked ==
    \A m \in ModelObjects :
        /\ permits[m] + Cardinality(InFlight \cap On(m)) = RequestLimit
        /\ (InFlight \cap On(m) = {}) => permits[m] = RequestLimit
        /\ (queue[m] # <<>> /\ Failed \cap On(m) # {}
               /\ Cardinality(InFlight \cap On(m)) < RequestLimit)
              => ENABLED Admit(Head(queue[m]))

C38_FailureReleasesSlot == []C38_NoSlotLeaked /\ [][C38_FailureStep]_vars

C38_Witness ==
    /\ Cardinality(Failed \cap On(1)) = 2
    /\ Cardinality(InFlight \cap On(1)) = RequestLimit
    /\ permits[1] = 0

\* C39: for an OpenAi model whose id open_ai::Model::from_id does not know,
\* stream_completion returns the error in its one step, whether or not the
\* limiter has a free slot: the call never queues for a slot and never holds
\* one, it fetches and refreshes no token, and it sends no request.
UnknownOpenAiModel == model.provider = "OpenAi" /\ ~model.open_ai_id_known

C39_NothingStarted ==
    UnknownOpenAiModel =>
        /\ pc \in {"idle", "done"}
        /\ pc = "done" => result = Err(From_anyhow([kind |-> "UnknownOpenAiModel"]))
        /\ pc = "idle" => result = NoResult
        /\ op[Dispatched] = "idle"
        /\ ~HoldsSlot(Dispatched)
        /\ Dispatched \notin waited
        /\ \A i \in 1..Len(queue[1]) : queue[1][i] # Dispatched
        /\ token = 0
        /\ refresh_calls = 0
        /\ requests = <<>>
        /\ responses = <<>>
        /\ perform_result = NoResult

C39_ReturnStep ==
    UnknownOpenAiModel =>
        /\ llm_api_token' = llm_api_token
        /\ pc' # pc => /\ pc = "idle"
                       /\ pc' = "done"
                       /\ permits' = permits
                       /\ queue' = queue
                       /\ op' = op

C39_UnknownOpenAiModelFailsAtOnce == []C39_NothingStarted /\ [][C39_ReturnStep]_vars

C39_Witness ==
    /\ UnknownOpenAiModel
    /\ pc = "done"
    /\ result = Err(From_anyhow([kind |-> "UnknownOpenAiModel"]))
    /\ permits[1] = 0
    /\ op[FirstHolder] = "admitted"

====
